---------------------------- MODULE Spec2Model ----------------------------
(***************************************************************************)
(* State synchronisation and triage engine of the vibe-assist daemon:      *)
(* the shared store (daemon.py), the request handlers (daemon.py), the     *)
(* git watcher (watcher.py), the fast path, the deep path, the persistence *)
(* writer and the screenshot triage (analysis.py).                         *)
(*                                                                         *)
(* Conventions.  Python list indexes are 0-based: list position i of the   *)
(* code is element i + 1 of the TLA+ sequence.  A text (an issue           *)
(* description) is the sequence of its tokens; the token Blank is a run of *)
(* white space.  A commit hash is the number of the commit in the          *)
(* repository's linear history; NoCommit is Python's None / "".            *)
(***************************************************************************)
EXTENDS Integers, Sequences, FiniteSets, TLC

(***************************************************************************)
(* Bounds of the model.                                                    *)
(***************************************************************************)
MaxIssues == 2
MaxFeedback == 1
MaxCommits == 3
MaxItems == 1
\* the deep-path calls after which the developer stops checking out commits
MaxDispatches == 3

(***************************************************************************)
(* Program constants.                                                      *)
(***************************************************************************)
NoCommit == 0
NoScore == 0
MaxScore == 100
ScorePenalty == 10
FalsePositivePct == 70
DuplicatePct == 80
DefaultPriority == 3
CautiousPriority == 4

(***************************************************************************)
(* Texts.                                                                  *)
(***************************************************************************)
Blank == " "
Vocab == <<"hardcoded", "API", "key", "in", "config.py", "file", "found", "on",
           "line", "ten">>

\* str.lower() on one token
Lower(w) == IF w = "API" THEN "api" ELSE w

\* set(text.lower().split()): the lower-cased words of a text
Words(text) == {Lower(text[i]) : i \in {j \in DOMAIN text : text[j] # Blank}}

\* a variant of OverlapAbove that also accepts a ratio equal to pct / 100
OverlapAtLeast(a, b, pct) ==
    100 * Cardinality(a \cap b) >= pct * Cardinality(a \cup b)

\* len(a & b) / len(a | b) > pct / 100, for non-empty word sets
OverlapAbove(a, b, pct) ==
    100 * Cardinality(a \cap b) > pct * Cardinality(a \cup b)

\* the test of one stored text against the candidate's text
\* (truthiness of both texts, then of both word sets, then the ratio)
TextsOverlap(stored, new, pct) ==
    /\ stored # <<>>
    /\ new # <<>>
    /\ Words(stored) # {}
    /\ Words(new) # {}
    /\ OverlapAbove(Words(stored), Words(new), pct)

\* text.lower()
LowerText(text) == [k \in DOMAIN text |-> Lower(text[k])]

\* the texts made of consecutive tokens of Vocab
Windows ==
    {SubSeq(Vocab, p[1], p[2]) :
        p \in {q \in (1 .. Len(Vocab)) \X (1 .. Len(Vocab)) : q[1] <= q[2]}}

\* the descriptions a candidate carries in this model: every window of
\* Vocab, as written and in lower case
AllTexts == Windows \cup {LowerText(w) : w \in Windows}

KeyInConfig == <<"hardcoded", "API", "key", "in", "config.py">>
KeyInConfigFile == <<"hardcoded", "api", "key", "in", "config.py", "file">>
KeyFile == <<"key", "file">>
OnlyBlank == <<Blank>>

\* the texts that issues of the store carry in this model
StoredTexts == {KeyInConfig, KeyFile, OnlyBlank, Vocab}

Severities == {"High", "Critical", "Medium"}
Notes == {"noisy"}
Times == {1}


(***************************************************************************)
(* Records of the store.                                                   *)
(***************************************************************************)
\* an entry of state["active_issues"]; priority_score = NoScore: no such key
Issue(t, d, s, p) ==
    [type |-> t, description |-> d, severity |-> s, priority_score |-> p]

\* a variant of DismissedRecord that drops the caller's note
UnnotedRecord(issue, now, note) ==
    [description |-> issue.description, type |-> issue.type,
     dismissed_at |-> now, note |-> ""]

\* an entry of state["user_feedback"]["dismissed_issues"]
DismissedRecord(issue, now, note) ==
    [description |-> issue.description, type |-> issue.type,
     dismissed_at |-> now, note |-> note]

\* an entry of state["user_feedback"]["false_positives"]
FalsePositiveRecord(issue, now, note) ==
    [description |-> issue.description, type |-> issue.type,
     severity |-> issue.severity, marked_at |-> now, note |-> note]

\* an entry of project_charter["charter_items"]
CharterItem(g, c, by) ==
    [goal |-> g, completed |-> c, completed_by_commit |-> by]

\* state["project_charter"] before the first full scan
DefaultCharter == [initialized |-> FALSE, description |-> "", charter_items |-> <<>>]

\* Python's list[i] and list.pop(i) take -len(list) <= i < len(list), a
\* negative i counting from the end, and raise IndexError for any other i
Addressable(list, i) == -Len(list) <= i /\ i < Len(list)

\* the position in the sequence of the element Python calls list[i]
Position(list, i) == IF i < 0 THEN Len(list) + i + 1 ELSE i + 1

\* a variant of Pop that ignores the index: list.pop()
PopLast(list, i) == SubSeq(list, 1, Len(list) - 1)

\* list.pop(i): the list without its element at Python index i
Pop(list, i) ==
    SubSeq(list, 1, Position(list, i) - 1)
        \o SubSeq(list, Position(list, i) + 1, Len(list))

\* 0 <= i < len(list)
InRange(i, list) == 0 <= i /\ i < Len(list)

\* sequences over S of length at most n
SeqsUpTo(S, n) == UNION {[1 .. k -> S] : k \in 0 .. n}

(***************************************************************************)
(* State.                                                                  *)
(***************************************************************************)
VARIABLES
    \* the shared store, daemon.state
    security_score, active_issues, project_charter, last_analyzed_commit,
    dismissed_issues, false_positives,
    \* state_lock: "free" or the thread that holds it
    lock,
    \* analysis.client is not None
    client,
    \* .vibe-assist/state.json and .vibe-assist/context.vibe: <<>> (no file)
    \* or <<content>>; whether a write of each file succeeds
    state_file, charter_file, state_writable, charter_writable,
    \* the request layer: the last handler's return value, and the issue
    \* list the API caller last read with GET /state
    response, caller_view,
    \* the screenshot thread (screen.start, analyze_screen_proactively,
    \* triage_suggestions): its position and its locals
    s_pc, suggestion, existing_issues, triage_result, triage_calls,
    \* history: the return statement of triage_suggestions that was taken,
    \* and the number of analyze_screen_proactively calls that have not
    \* returned
    triage_path, s_in_flight,
    \* the watcher thread (watcher.start, analyze_fast_path,
    \* analyze_deep_path, _save_state_and_charter_files): its position, the
    \* caller analyze_deep_path returns to, and its locals
    w_pc, w_from, current_head, commits_to_process, last_commit_hash,
    last_diff_text, diff_text, w_commit, charter_update, completed_goals,
    fast_issue,
    \* the repository: whether project_path is one, its HEAD commit, the
    \* uncommitted changes, the commits whose diff holds no text
    is_repo, head, worktree, empty_commits,
    \* history: the analyze_deep_path calls made so far with how each went,
    \* what the previous and the current tick of the live loop observed, and
    \* the cursor and the HEAD the backlog was listed from (<<>>: not listed),
    \* and the numbers of analyze_fast_path and analyze_deep_path calls that
    \* have not returned
    deep_log, tick_prev, tick_cur, listed, w_in_flight,
    \* whether the tick of the live loop before the one in progress ended in
    \* its except clause
    tick_raised

storeVars == <<security_score, active_issues, project_charter,
               last_analyzed_commit, dismissed_issues, false_positives>>
diskVars == <<state_file, charter_file, state_writable, charter_writable>>
requestVars == <<response, caller_view>>
screenVars == <<s_pc, suggestion, existing_issues, triage_result, triage_calls,
                triage_path, s_in_flight>>
watcherVars == <<w_pc, w_from, current_head, commits_to_process, last_commit_hash,
                 last_diff_text, diff_text, w_commit, charter_update,
                 completed_goals, fast_issue>>
repoVars == <<is_repo, head, worktree, empty_commits>>
histVars == <<deep_log, tick_prev, tick_cur, listed, w_in_flight, tick_raised>>
watcherSide == <<watcherVars, repoVars, histVars>>
vars == <<storeVars, diskVars, lock, client, requestVars, screenVars, watcherSide>>

(***************************************************************************)
(* Request handlers (daemon.py).  Each handler body is one `with           *)
(* state_lock:` block that makes no blocking call: it runs when the lock   *)
(* is free and is one step.                                                *)
(***************************************************************************)
Indexes == -1 .. MaxIssues
FeedbackActions == {"dismiss", "false_positive", "resolve", "snooze"}

\* what a handler returns; removed is <<>> or <<the popped issue>>
Reply(code, error, message, remaining, removed) ==
    [code |-> code, error |-> error, message |-> message,
     remaining_issues |-> remaining, removed |-> removed]

NoReply == Reply(0, "", "", 0, <<>>)
InvalidIndex == Reply(404, "Invalid issue index", "", 0, <<>>)

\* A local variable bound to the list object state["active_issues"]: it
\* follows the store's list (live) until the store is given a new list
\* object, and then keeps the old object's content (snap).
LiveRef == [live |-> TRUE, snap |-> <<>>]
NoRef == [live |-> FALSE, snap |-> <<>>]
Deref(ref) == IF ref.live THEN active_issues ELSE ref.snap
Rebound(ref) == IF ref.live THEN [live |-> FALSE, snap |-> active_issues] ELSE ref

\* GET /state
get_state ==
    /\ lock = "free"
    /\ caller_view' = active_issues
    /\ response' = Reply(200, "", "state", Len(active_issues), <<>>)
    /\ UNCHANGED <<storeVars, diskVars, watcherSide, lock, client, screenVars>>

\* a variant of clear_issues without `with state_lock:`
ClearIssuesUnlocked ==
    /\ active_issues' = <<>>
    /\ security_score' = MaxScore
    /\ response' = Reply(200, "", "Cleared issues", 0, <<>>)
    /\ existing_issues' = Rebound(existing_issues)
    /\ UNCHANGED <<project_charter, last_analyzed_commit, dismissed_issues,
                   false_positives, diskVars, watcherSide, lock, client, caller_view,
                   s_pc, suggestion, triage_result, triage_calls, triage_path, s_in_flight>>

\* a variant of clear_issues that also forgets the commit cursor
ClearIssuesAndCursor ==
    /\ lock = "free"
    /\ active_issues' = <<>>
    /\ security_score' = MaxScore
    /\ last_analyzed_commit' = NoCommit
    /\ response' = Reply(200, "", "Cleared issues", 0, <<>>)
    /\ existing_issues' = Rebound(existing_issues)
    /\ UNCHANGED <<project_charter, dismissed_issues,
                   false_positives, diskVars, watcherSide, lock, client, caller_view,
                   s_pc, suggestion, triage_result, triage_calls, triage_path, s_in_flight>>

\* POST /issues/clear
clear_issues ==
    /\ lock = "free"
    /\ active_issues' = <<>>
    /\ security_score' = MaxScore
    /\ response' = Reply(200, "", "Cleared issues", 0, <<>>)
    /\ existing_issues' = Rebound(existing_issues)
    /\ UNCHANGED <<project_charter, last_analyzed_commit, dismissed_issues,
                   false_positives, diskVars, watcherSide, lock, client, caller_view,
                   s_pc, suggestion, triage_result, triage_calls, triage_path, s_in_flight>>

\* the index test of delete_issue
DeleteIndexValid(index) == 0 <= index /\ index < Len(active_issues)

\* DELETE /issues/{index}
delete_issue(index) ==
    /\ lock = "free"
    /\ IF DeleteIndexValid(index)
       THEN /\ active_issues' = Pop(active_issues, index)
            /\ response' = Reply(200, "", "Issue removed", 0,
                                 <<active_issues[Position(active_issues, index)]>>)
       ELSE /\ active_issues' = active_issues
            /\ response' = InvalidIndex
    /\ UNCHANGED <<security_score, project_charter, last_analyzed_commit,
                   dismissed_issues, false_positives, diskVars, watcherSide, lock, client,
                   caller_view, screenVars>>

\* a variant of FeedbackIndexInvalid without the test for a negative index
FeedbackIndexTooLarge(index) == index >= Len(active_issues)

\* the index test of submit_feedback
FeedbackIndexInvalid(index) == index < 0 \/ index >= Len(active_issues)

\* POST /feedback
submit_feedback(index, action, note, now) ==
    /\ lock = "free"
    /\ IF FeedbackIndexInvalid(index)
       THEN /\ response' = InvalidIndex
            /\ UNCHANGED <<active_issues, dismissed_issues, false_positives>>
       ELSE IF ~Addressable(active_issues, index)
       THEN \* line 124: the subscript raises IndexError
            /\ response' = Reply(500, "Internal Server Error", "", 0, <<>>)
            /\ UNCHANGED <<active_issues, dismissed_issues, false_positives>>
       ELSE LET issue == active_issues[Position(active_issues, index)] IN
            CASE action = "dismiss" ->
                   /\ dismissed_issues' =
                          Append(dismissed_issues, DismissedRecord(issue, now, note))
                   /\ active_issues' = Pop(active_issues, index)
                   /\ response' = Reply(200, "", "Issue dismissed",
                                        Len(active_issues) - 1, <<>>)
                   /\ UNCHANGED false_positives
              [] action = "false_positive" ->
                   /\ false_positives' =
                          Append(false_positives, FalsePositiveRecord(issue, now, note))
                   /\ active_issues' = Pop(active_issues, index)
                   /\ response' = Reply(200, "", "Marked as false positive",
                                        Len(active_issues) - 1, <<>>)
                   /\ UNCHANGED dismissed_issues
              [] action = "resolve" ->
                   /\ active_issues' = Pop(active_issues, index)
                   /\ response' = Reply(200, "", "Issue resolved",
                                        Len(active_issues) - 1, <<>>)
                   /\ UNCHANGED <<dismissed_issues, false_positives>>
              [] OTHER ->
                   /\ response' = Reply(400, "Unknown action", "", 0, <<>>)
                   /\ UNCHANGED <<active_issues, dismissed_issues, false_positives>>
    /\ UNCHANGED <<security_score, project_charter, last_analyzed_commit,
                   diskVars, watcherSide, lock, client, caller_view, screenVars>>

\* the requests the API callers make: the history lists stay within
\* MaxFeedback records
FeedbackRequest ==
    \E index \in Indexes, action \in FeedbackActions, note \in Notes, now \in Times :
        /\ (action = "dismiss" /\ ~FeedbackIndexInvalid(index))
               => Len(dismissed_issues) < MaxFeedback
        /\ (action = "false_positive" /\ ~FeedbackIndexInvalid(index))
               => Len(false_positives) < MaxFeedback
        /\ submit_feedback(index, action, note, now)

DeleteRequest == \E index \in Indexes : delete_issue(index)

(***************************************************************************)
(* Suggestion triage (analysis.triage_suggestions).                        *)
(***************************************************************************)
\* ProactiveSuggestion, the candidate the screenshot analysis returns
Suggestion(has, t, d, s) ==
    [has_suggestion |-> has, suggestion_type |-> t, description |-> d, severity |-> s]

NoSuggestion == Suggestion(FALSE, "", <<>>, "High")

\* the pair (should_add, triaged_suggestion); triaged is <<>> for None
Rejected == [should_add |-> FALSE, triaged |-> <<>>]
Admitted(issue) == [should_add |-> TRUE, triaged |-> <<issue>>]

\* a variant of MatchesFalsePositive that looks for the candidate's very text
MatchesExactText(new, fps) ==
    \E i \in DOMAIN fps : fps[i].description = new.description

\* the loop over false_positives: some record matches the candidate
MatchesFalsePositive(new, fps) ==
    \E i \in DOMAIN fps :
        TextsOverlap(fps[i].description, new.description, FalsePositivePct)

\* the loop over existing_issues: some issue is a lexical duplicate
IsDuplicate(new, existing) ==
    \E i \in DOMAIN existing :
        TextsOverlap(existing[i].description, new.description, DuplicatePct)

\* the record the fallback paths build from the candidate
FallbackIssue(new, priority) ==
    Issue("Proactive - " \o new.suggestion_type, new.description, new.severity, priority)

\* `if not client:` branch
TriageWithoutClient(new, existing) ==
    IF IsDuplicate(new, existing) THEN Rejected
    ELSE Admitted(FallbackIssue(new, DefaultPriority))

\* the Gateway answered with an empty text
TriageOnEmptyResponse(new) ==
    IF new.severity = "High" THEN Admitted(FallbackIssue(new, CautiousPriority))
    ELSE Rejected

\* the Gateway call or the validation of its answer raised
TriageOnError(new, existing) ==
    IF new.severity # "High" THEN Rejected
    ELSE IF IsDuplicate(new, existing) THEN Rejected
    ELSE Admitted(FallbackIssue(new, CautiousPriority))

\* the Gateway answered with a SuggestionTriage whose list is `suggestions`
TriageOnResult(suggestions) ==
    IF suggestions = <<>> THEN Rejected ELSE Admitted(suggestions[1])

Scores == 1 .. 5

\* the TriagedSuggestion records the Gateway may answer with for a candidate
GatewayTriaged(new) ==
    {Issue("Proactive - " \o new.suggestion_type, d, s, p) :
        d \in {new.description, KeyFile}, s \in {"High", "Critical"}, p \in Scores}

\* lines 753-768: the false-positive check, under the lock
TriageFeedbackCheck ==
    /\ s_pc = "triage_feedback"
    /\ lock = "free"
    /\ triage_calls' = 0
    /\ IF MatchesFalsePositive(suggestion, false_positives)
       THEN /\ triage_result' = Rejected
            /\ triage_path' = "false_positive"
            /\ s_pc' = "triage_done"
       ELSE /\ triage_result' = triage_result
            /\ triage_path' = triage_path
            /\ s_pc' = "triage_route"
    /\ UNCHANGED <<storeVars, diskVars, watcherSide, lock, client, requestVars,
                   suggestion, existing_issues, s_in_flight>>

\* lines 770-787: no Gateway client
TriageNoClient ==
    /\ s_pc = "triage_route"
    /\ ~client
    /\ triage_result' = TriageWithoutClient(suggestion, Deref(existing_issues))
    /\ triage_path' = "no_client"
    /\ s_pc' = "triage_done"
    /\ UNCHANGED <<storeVars, diskVars, watcherSide, lock, client, requestVars,
                   suggestion, existing_issues, triage_calls, s_in_flight>>

\* lines 833-889: the Gateway call and what follows each of its outcomes
TriageGateway ==
    /\ s_pc = "triage_route"
    /\ client
    /\ triage_calls' = triage_calls + 1
    /\ \/ /\ triage_result' = TriageOnError(suggestion, Deref(existing_issues))
          /\ triage_path' = "error"
       \/ /\ triage_result' = TriageOnEmptyResponse(suggestion)
          /\ triage_path' = "empty_response"
       \/ /\ \E list \in {<<>>} \cup {<<t>> : t \in GatewayTriaged(suggestion)} :
                triage_result' = TriageOnResult(list)
          /\ triage_path' = "result"
    /\ s_pc' = "triage_done"
    /\ UNCHANGED <<storeVars, diskVars, watcherSide, lock, client, requestVars,
                   suggestion, existing_issues, s_in_flight>>

(***************************************************************************)
(* The screenshot thread (screen.start, analyze_screen_proactively).       *)
(***************************************************************************)
\* the texts the screenshot analysis reports in this model
ScreenTexts == {KeyInConfigFile, KeyFile}

\* the candidates the Gateway may report for a screenshot
Candidates(texts) ==
    {Suggestion(TRUE, "security", d, s) : d \in texts, s \in Severities}

\* screen.start takes a screenshot and calls analyze_screen_proactively,
\* which returns at once without a client
ScreenStart ==
    /\ s_pc = "idle"
    /\ suggestion' = NoSuggestion
    /\ existing_issues' = NoRef
    /\ triage_result' = Rejected
    /\ triage_calls' = 0
    /\ triage_path' = "none"
    /\ s_pc' = IF client THEN "context" ELSE "returned"
    /\ s_in_flight' = IF client THEN s_in_flight + 1 ELSE s_in_flight
    /\ UNCHANGED <<storeVars, diskVars, watcherSide, lock, client, requestVars>>

\* lines 908-913: the store is read for the prompt, under the lock
ScreenContext ==
    /\ s_pc = "context"
    /\ lock = "free"
    /\ s_pc' = "gateway"
    /\ UNCHANGED <<storeVars, diskVars, watcherSide, lock, client, requestVars,
                   suggestion, existing_issues, triage_result, triage_calls,
                   triage_path, s_in_flight>>

\* lines 975-1016: the Gateway call; it raises, answers nothing, answers
\* something unparsable or without a suggestion (return), or answers a
\* suggestion
ScreenGateway ==
    /\ s_pc = "gateway"
    /\ \/ /\ s_pc' = "returned"
          /\ suggestion' = suggestion
          /\ s_in_flight' = s_in_flight - 1
       \/ /\ Len(active_issues) < MaxIssues
          /\ \E c \in Candidates(ScreenTexts) \cup {Suggestion(TRUE, "security", <<>>, "High")} :
                /\ suggestion' = c
                /\ s_pc' = IF c.has_suggestion /\ c.description # <<>>
                           THEN "read_issues" ELSE "returned"
                /\ s_in_flight' = IF c.has_suggestion /\ c.description # <<>>
                                  THEN s_in_flight ELSE s_in_flight - 1
    /\ UNCHANGED <<storeVars, diskVars, watcherSide, lock, client, requestVars,
                   existing_issues, triage_result, triage_calls, triage_path>>

\* lines 1025-1028: the issue list is fetched under the lock and handed to
\* triage_suggestions
ScreenReadIssues ==
    /\ s_pc = "read_issues"
    /\ lock = "free"
    /\ existing_issues' = LiveRef
    /\ s_pc' = "triage_feedback"
    /\ UNCHANGED <<storeVars, diskVars, watcherSide, lock, client, requestVars,
                   suggestion, triage_result, triage_calls, triage_path, s_in_flight>>

\* a variant of ScreenAdmit that appends the candidate itself when triage
\* rejected it
ScreenAdmitAnyway ==
    /\ s_pc = "triage_done"
    /\ lock = "free"
    /\ active_issues' =
           Append(active_issues,
                  IF triage_result.should_add /\ triage_result.triaged # <<>>
                  THEN triage_result.triaged[1]
                  ELSE FallbackIssue(suggestion, DefaultPriority))
    /\ s_pc' = "returned"
    /\ s_in_flight' = s_in_flight - 1
    /\ UNCHANGED <<security_score, project_charter, last_analyzed_commit,
                   dismissed_issues, false_positives, diskVars, watcherSide, lock, client,
                   requestVars, suggestion, existing_issues, triage_result,
                   triage_calls, triage_path>>

\* a variant of ScreenAdmit without `with lock:` around the append
ScreenAdmitUnlocked ==
    /\ s_pc = "triage_done"
    /\ IF triage_result.should_add /\ triage_result.triaged # <<>>
       THEN active_issues' = Append(active_issues, triage_result.triaged[1])
       ELSE active_issues' = active_issues
    /\ s_pc' = "returned"
    /\ s_in_flight' = s_in_flight - 1
    /\ UNCHANGED <<security_score, project_charter, last_analyzed_commit,
                   dismissed_issues, false_positives, diskVars, watcherSide, lock, client,
                   requestVars, suggestion, existing_issues, triage_result,
                   triage_calls, triage_path>>

\* lines 1030-1036: the admitted record is appended under the lock, then
\* analyze_screen_proactively returns
ScreenAdmit ==
    /\ s_pc = "triage_done"
    /\ IF triage_result.should_add /\ triage_result.triaged # <<>>
       THEN /\ lock = "free"
            /\ active_issues' = Append(active_issues, triage_result.triaged[1])
       ELSE active_issues' = active_issues
    /\ s_pc' = "returned"
    /\ s_in_flight' = s_in_flight - 1
    /\ UNCHANGED <<security_score, project_charter, last_analyzed_commit,
                   dismissed_issues, false_positives, diskVars, watcherSide, lock, client,
                   requestVars, suggestion, existing_issues, triage_result,
                   triage_calls, triage_path>>

\* a variant of the loop of screen.start that hands the screenshot to the
\* analysis and sleeps without waiting for the call to return
ScreenSleepWithoutWaiting ==
    /\ s_pc # "idle"
    /\ s_pc' = "idle"
    /\ UNCHANGED <<storeVars, diskVars, watcherSide, lock, client, requestVars,
                   suggestion, existing_issues, triage_result, triage_calls,
                   triage_path, s_in_flight>>

\* time.sleep(30) in screen.start
ScreenSleep ==
    /\ s_pc = "returned"
    /\ s_pc' = "idle"
    /\ UNCHANGED <<storeVars, diskVars, watcherSide, lock, client, requestVars,
                   suggestion, existing_issues, triage_result, triage_calls,
                   triage_path, s_in_flight>>

(***************************************************************************)
(* Persistence writer (analysis._save_state_and_charter_files), called by  *)
(* the deep path on the watcher thread.                                    *)
(***************************************************************************)
\* json.dump of last_analyzed_commit: None is written as null (<<>>), a
\* hexsha as a string
JsonOfCommit(c) == IF c = NoCommit THEN <<>> ELSE <<c>>

\* json.load of it: null is read as None
CommitOfJson(j) == IF j = <<>> THEN NoCommit ELSE j[1]

\* json.dump(state, f): the document written to state.json; numbers,
\* strings, booleans, lists and dicts with string keys are written as the
\* JSON values of the same content
StoreDocument ==
    [security_score |-> security_score, active_issues |-> active_issues,
     project_charter |-> project_charter,
     last_analyzed_commit |-> JsonOfCommit(last_analyzed_commit),
     dismissed_issues |-> dismissed_issues, false_positives |-> false_positives]

\* one line of the "Project Goals" section of context.vibe
GoalLine(item) ==
    [goal |-> item.goal, struck |-> item.completed,
     completed_in |-> IF item.completed THEN item.completed_by_commit ELSE NoCommit]

\* the text written to context.vibe
RenderedCharter ==
    [overview |-> project_charter.description,
     goals |-> [i \in DOMAIN project_charter.charter_items |->
                    GoalLine(project_charter.charter_items[i])],
     last_updated |-> last_analyzed_commit]

\* `with lock:` of the writer
SaveAcquire ==
    /\ w_pc = "save"
    /\ lock = "free"
    /\ lock' = "watcher"
    /\ w_pc' = "save_state"
    /\ UNCHANGED <<storeVars, diskVars, client, requestVars, screenVars, repoVars,
                   histVars, w_from, current_head, commits_to_process,
                   last_commit_hash, last_diff_text, diff_text, w_commit,
                   charter_update, completed_goals, fast_issue>>

\* a variant of SaveStateFile that leaves the snapshot to a later call of
\* the writer
SaveStateFileLater ==
    /\ w_pc = "save_state"
    /\ w_pc' = "save_charter"
    /\ UNCHANGED <<storeVars, diskVars, lock, client, requestVars, screenVars,
                   repoVars, histVars, w_from, current_head, commits_to_process,
                   last_commit_hash, last_diff_text, diff_text, w_commit,
                   charter_update, completed_goals, fast_issue>>

\* lines 262-267: state.json is written, or the write fails and is logged
SaveStateFile ==
    /\ w_pc = "save_state"
    /\ state_file' = IF state_writable THEN <<StoreDocument>> ELSE state_file
    /\ w_pc' = "save_charter"
    /\ UNCHANGED <<storeVars, charter_file, state_writable, charter_writable, lock, client, requestVars, screenVars,
                   repoVars, histVars, w_from, current_head, commits_to_process,
                   last_commit_hash, last_diff_text, diff_text, w_commit,
                   charter_update, completed_goals, fast_issue>>

\* where analyze_deep_path returns to
DeepReturn == IF w_from = "replay" THEN "replay" ELSE "tick_end"

\* a variant of SaveCharterFile that removes the snapshot again when the
\* charter could not be written
SaveCharterFileUndoing ==
    /\ w_pc = "save_charter"
    /\ IF charter_writable /\ last_analyzed_commit # NoCommit
       THEN /\ charter_file' = <<RenderedCharter>>
            /\ state_file' = state_file
       ELSE /\ charter_file' = charter_file
            /\ state_file' = <<>>
    /\ lock' = "free"
    /\ w_pc' = DeepReturn
    /\ w_in_flight' = [w_in_flight EXCEPT !.deep = @ - 1]
    /\ UNCHANGED <<storeVars, state_writable, charter_writable,
                   client, requestVars, screenVars, repoVars, deep_log, tick_prev, tick_cur, tick_raised, listed, w_from,
                   current_head, commits_to_process, last_commit_hash,
                   last_diff_text, diff_text, w_commit, charter_update,
                   completed_goals, fast_issue>>

\* lines 270-345: context.vibe is written, or the write fails and is logged
\* (line 338 slices last_analyzed_commit, which raises when it is None);
\* the lock is released and the writer and analyze_deep_path return
SaveCharterFile ==
    /\ w_pc = "save_charter"
    /\ charter_file' = IF charter_writable /\ last_analyzed_commit # NoCommit
                       THEN <<RenderedCharter>> ELSE charter_file
    /\ lock' = "free"
    /\ w_pc' = DeepReturn
    /\ w_in_flight' = [w_in_flight EXCEPT !.deep = @ - 1]
    /\ UNCHANGED <<storeVars, state_file, state_writable, charter_writable,
                   client, requestVars, screenVars, repoVars, deep_log, tick_prev, tick_cur, tick_raised, listed, w_from,
                   current_head, commits_to_process, last_commit_hash,
                   last_diff_text, diff_text, w_commit, charter_update,
                   completed_goals, fast_issue>>

(***************************************************************************)
(* Deep path (analysis.analyze_deep_path, _check_charter_alignment).       *)
(***************************************************************************)
Goals == {"ship the api", "add tests"}
\* the description the Gateway may propose
Overview == "a daemon with an api"

\* the charter items the Gateway may propose: a goal not completed, or the
\* first goal completed by commit 1
ProposedItems ==
    {CharterItem(g, FALSE, NoCommit) : g \in Goals}
        \cup {CharterItem("ship the api", TRUE, 1)}

\* the ProjectCharter objects the Gateway may answer with
Proposals ==
    [description : {Overview}, charter_items : SeqsUpTo(ProposedItems, MaxItems)]

\* the completed_goals lists the alignment check may answer with: none, one
\* index (in range or not), or every index of the list
GoalIndexSets ==
    {{}} \cup {{g} : g \in -1 .. MaxItems} \cup {0 .. MaxItems - 1}

\* the entry of deep_log for the call in progress is given its outcome
Logged(outcome) == [deep_log EXCEPT ![Len(deep_log)].outcome = outcome]

\* a variant of DeepEntry that keeps state_lock after it has read the
\* charter
DeepEntryHoldingLock ==
    /\ w_pc = "deep"
    /\ IF ~client
       THEN /\ w_pc' = DeepReturn
            /\ deep_log' = Logged("no_client")
            /\ w_in_flight' = [w_in_flight EXCEPT !.deep = @ - 1]
            /\ lock' = lock
       ELSE /\ lock = "free"
            /\ IF ~project_charter.initialized
               THEN /\ w_pc' = DeepReturn
                    /\ deep_log' = Logged("uninitialized")
                    /\ w_in_flight' = [w_in_flight EXCEPT !.deep = @ - 1]
                    /\ lock' = lock
               ELSE /\ w_pc' = "deep_diff"
                    /\ deep_log' = deep_log
                    /\ w_in_flight' = w_in_flight
                    /\ lock' = "watcher"
    /\ UNCHANGED <<storeVars, diskVars, client, requestVars, screenVars,
                   repoVars, tick_prev, tick_cur, tick_raised, listed, w_from, current_head,
                   commits_to_process, last_commit_hash, last_diff_text,
                   diff_text, w_commit, charter_update, completed_goals, fast_issue>>

\* lines 416-431: no client, or the charter is read under the lock and is
\* not initialized: return
DeepEntry ==
    /\ w_pc = "deep"
    /\ IF ~client
       THEN /\ w_pc' = DeepReturn
            /\ deep_log' = Logged("no_client")
            /\ w_in_flight' = [w_in_flight EXCEPT !.deep = @ - 1]
       ELSE /\ lock = "free"
            /\ IF ~project_charter.initialized
               THEN /\ w_pc' = DeepReturn
                    /\ deep_log' = Logged("uninitialized")
                    /\ w_in_flight' = [w_in_flight EXCEPT !.deep = @ - 1]
               ELSE /\ w_pc' = "deep_diff"
                    /\ deep_log' = deep_log
                    /\ w_in_flight' = w_in_flight
    /\ UNCHANGED <<storeVars, diskVars, lock, client, requestVars, screenVars,
                   repoVars, tick_prev, tick_cur, tick_raised, listed, w_from, current_head,
                   commits_to_process, last_commit_hash, last_diff_text,
                   diff_text, w_commit, charter_update, completed_goals, fast_issue>>

\* lines 434-443: the commit's diff against its first parent (the empty tree
\* for a root commit) is computed; computing it may raise
DeepDiff ==
    /\ w_pc = "deep_diff"
    /\ \/ /\ w_pc' = DeepReturn
          /\ deep_log' = Logged("diff_error")
          /\ w_in_flight' = [w_in_flight EXCEPT !.deep = @ - 1]
       \/ /\ w_pc' = IF w_commit \in empty_commits THEN "deep_skip" ELSE "deep_gateway"
          /\ deep_log' = deep_log
          /\ w_in_flight' = w_in_flight
    /\ UNCHANGED <<storeVars, diskVars, lock, client, requestVars, screenVars,
                   repoVars, tick_prev, tick_cur, tick_raised, listed, w_from, current_head,
                   commits_to_process, last_commit_hash, last_diff_text,
                   diff_text, w_commit, charter_update, completed_goals, fast_issue>>

\* lines 443-449: no textual change: the cursor is advanced under the lock,
\* then the writer is called
DeepSkip ==
    /\ w_pc = "deep_skip"
    /\ lock = "free"
    /\ last_analyzed_commit' = w_commit
    /\ deep_log' = Logged("skipped")
    /\ w_pc' = "save"
    /\ UNCHANGED <<security_score, active_issues, project_charter,
                   dismissed_issues, false_positives, diskVars, lock, client,
                   requestVars, screenVars, repoVars, tick_prev, tick_cur, tick_raised, listed, w_in_flight, w_from,
                   current_head, commits_to_process, last_commit_hash,
                   last_diff_text, diff_text, w_commit, charter_update,
                   completed_goals, fast_issue>>

\* a variant of DeepGateway that advances the cursor when the call fails
DeepGatewayAdvancing ==
    /\ w_pc = "deep_gateway"
    /\ \/ /\ w_pc' = DeepReturn
          /\ deep_log' = Logged("failed")
          /\ w_in_flight' = [w_in_flight EXCEPT !.deep = @ - 1]
          /\ charter_update' = charter_update
          /\ last_analyzed_commit' = w_commit
       \/ \E p \in Proposals :
             /\ charter_update' = <<p>>
             /\ w_pc' = "deep_merge"
             /\ deep_log' = deep_log
             /\ w_in_flight' = w_in_flight
             /\ last_analyzed_commit' = last_analyzed_commit
    /\ UNCHANGED <<security_score, active_issues, project_charter,
                   dismissed_issues, false_positives, diskVars, lock, client,
                   requestVars, screenVars, repoVars, tick_prev, tick_cur, tick_raised, listed,
                   w_from, current_head, commits_to_process, last_commit_hash,
                   last_diff_text, diff_text, w_commit, completed_goals,
                   fast_issue>>

\* lines 481-498, 542-548: the charter-update call; it raises, answers
\* nothing or answers something that does not validate (return), or answers
\* a ProjectCharter
DeepGateway ==
    /\ w_pc = "deep_gateway"
    /\ \/ /\ w_pc' = DeepReturn
          /\ deep_log' = Logged("failed")
          /\ w_in_flight' = [w_in_flight EXCEPT !.deep = @ - 1]
          /\ charter_update' = charter_update
       \/ \E p \in Proposals :
             /\ charter_update' = <<p>>
             /\ w_pc' = "deep_merge"
             /\ deep_log' = deep_log
             /\ w_in_flight' = w_in_flight
    /\ UNCHANGED <<storeVars, diskVars, lock, client, requestVars, screenVars,
                   repoVars, tick_prev, tick_cur, tick_raised, listed, w_from, current_head,
                   commits_to_process, last_commit_hash, last_diff_text,
                   diff_text, w_commit, completed_goals, fast_issue>>

\* project_charter.update({...}) with the proposal's fields
MergedCharter(charter, proposal) ==
    [charter EXCEPT !.description = proposal.description,
                    !.charter_items = proposal.charter_items]

\* lines 500-517: the merge and the cursor advance, under the lock
DeepMerge ==
    /\ w_pc = "deep_merge"
    /\ lock = "free"
    /\ project_charter' = MergedCharter(project_charter, charter_update[1])
    /\ last_analyzed_commit' = w_commit
    /\ deep_log' = Logged("merged")
    /\ w_pc' = "deep_align"
    /\ UNCHANGED <<security_score, active_issues, dismissed_issues,
                   false_positives, diskVars, lock, client, requestVars,
                   screenVars, repoVars, tick_prev, tick_cur, tick_raised, listed, w_in_flight, w_from,
                   current_head, commits_to_process, last_commit_hash,
                   last_diff_text, diff_text, w_commit, charter_update,
                   completed_goals, fast_issue>>

\* a variant of DeepAlign that goes on to the writer before the marking
DeepAlignThenSave ==
    /\ w_pc = "deep_align"
    /\ \E goals \in GoalIndexSets :
          /\ completed_goals' = goals
          /\ w_pc' = "save"
    /\ charter_update' = <<>>
    /\ UNCHANGED <<storeVars, diskVars, lock, client, requestVars, screenVars,
                   repoVars, histVars, w_from, current_head, commits_to_process,
                   last_commit_hash, last_diff_text, diff_text, w_commit,
                   fast_issue>>

\* lines 521-523, 348-405: the alignment check on the proposed items; None
\* (no answer, an error) and an empty completed_goals list both skip the
\* marking; charter_update is not read after this call
DeepAlign ==
    /\ w_pc = "deep_align"
    /\ \E goals \in GoalIndexSets :
          /\ completed_goals' = goals
          /\ w_pc' = IF goals # {} THEN "deep_mark" ELSE "save"
    /\ charter_update' = <<>>
    /\ UNCHANGED <<storeVars, diskVars, lock, client, requestVars, screenVars,
                   repoVars, histVars, w_from, current_head, commits_to_process,
                   last_commit_hash, last_diff_text, diff_text, w_commit,
                   fast_issue>>

\* the index test of the marking loop
GoalIndexValid(g, items) == 0 <= g /\ g < Len(items)

\* the loop of lines 529-534 over completed_goals
MarkedItems(items, goals, commit) ==
    [i \in DOMAIN items |->
        IF \E g \in goals : GoalIndexValid(g, items) /\ g + 1 = i
        THEN [items[i] EXCEPT !.completed = TRUE, !.completed_by_commit = commit]
        ELSE items[i]]

\* a variant of DeepMark that calls the writer from inside its locked
\* section
DeepMarkHoldingLock ==
    /\ w_pc = "deep_mark"
    /\ lock = "free"
    /\ lock' = "watcher"
    /\ project_charter' =
           [project_charter EXCEPT
               !.charter_items = MarkedItems(@, completed_goals, w_commit)]
    /\ completed_goals' = {}
    /\ w_pc' = "save"
    /\ UNCHANGED <<security_score, active_issues, last_analyzed_commit,
                   dismissed_issues, false_positives, diskVars, client,
                   requestVars, screenVars, repoVars, histVars, w_from,
                   current_head, commits_to_process, last_commit_hash,
                   last_diff_text, diff_text, w_commit, charter_update,
                   fast_issue>>

\* lines 527-534: the goals the commit completes are marked, under the lock;
\* completed_goals is not read after the loop
DeepMark ==
    /\ w_pc = "deep_mark"
    /\ lock = "free"
    /\ project_charter' =
           [project_charter EXCEPT
               !.charter_items = MarkedItems(@, completed_goals, w_commit)]
    /\ completed_goals' = {}
    /\ w_pc' = "save"
    /\ UNCHANGED <<security_score, active_issues, last_analyzed_commit,
                   dismissed_issues, false_positives, diskVars, lock, client,
                   requestVars, screenVars, repoVars, histVars, w_from,
                   current_head, commits_to_process, last_commit_hash,
                   last_diff_text, diff_text, w_commit, charter_update,
                   fast_issue>>

(***************************************************************************)
(* Fast path (analysis.analyze_fast_path).                                 *)
(***************************************************************************)
\* the SecurityIssue objects the Gateway may answer with
FastFindings == {Issue("Exposed secret", KeyInConfig, "Critical", NoScore)}

\* lines 193-227, 244-250: no client (return); the Gateway call raises,
\* answers nothing or answers something unparsable (return); or it answers
\* a SecurityIssue
FastGateway ==
    /\ w_pc = "fast"
    /\ \/ /\ w_pc' = "fast_return"
          /\ fast_issue' = <<>>
          /\ w_in_flight' = [w_in_flight EXCEPT !.fast = @ - 1]
       \/ /\ client
          /\ Len(active_issues) < MaxIssues
          /\ \E f \in FastFindings : fast_issue' = <<f>>
          /\ w_pc' = "fast_admit"
          /\ w_in_flight' = w_in_flight
    /\ UNCHANGED <<storeVars, diskVars, lock, client, requestVars, screenVars,
                   repoVars, deep_log, tick_prev, tick_cur, tick_raised, listed, w_from, current_head, commits_to_process,
                   last_commit_hash, last_diff_text, diff_text, w_commit,
                   charter_update, completed_goals>>

\* a variant of FastAdmit that lowers the score and leaves the finding to a
\* later locked section
FastAdmitScoreOnly ==
    /\ w_pc = "fast_admit"
    /\ lock = "free"
    /\ security_score' = security_score - ScorePenalty
    /\ w_pc' = "fast_return"
    /\ w_in_flight' = [w_in_flight EXCEPT !.fast = @ - 1]
    /\ UNCHANGED <<active_issues, project_charter, last_analyzed_commit, dismissed_issues,
                   false_positives, diskVars, lock, client, requestVars,
                   screenVars, repoVars, deep_log, tick_prev, tick_cur, tick_raised, listed, w_from, current_head,
                   commits_to_process, last_commit_hash, last_diff_text,
                   diff_text, w_commit, charter_update, completed_goals,
                   fast_issue>>

\* lines 235-243: the score is lowered and the finding appended, under the lock
FastAdmit ==
    /\ w_pc = "fast_admit"
    /\ lock = "free"
    /\ security_score' = security_score - ScorePenalty
    /\ active_issues' = Append(active_issues, fast_issue[1])
    /\ w_pc' = "fast_return"
    /\ w_in_flight' = [w_in_flight EXCEPT !.fast = @ - 1]
    /\ UNCHANGED <<project_charter, last_analyzed_commit, dismissed_issues,
                   false_positives, diskVars, lock, client, requestVars,
                   screenVars, repoVars, deep_log, tick_prev, tick_cur, tick_raised, listed, w_from, current_head,
                   commits_to_process, last_commit_hash, last_diff_text,
                   diff_text, w_commit, charter_update, completed_goals,
                   fast_issue>>

(***************************************************************************)
(* The watcher thread (watcher.start).                                     *)
(***************************************************************************)
Clean == "<clean>"
NotSeen == "<none>"
DiffTexts == {"diff a", "diff b"}
\* repo.head.commit.diff(None): no changed file, changed files whose diff
\* items hold no text, or changed files with text
WorkTrees == {Clean, ""} \cup DiffTexts

\* what a tick of the live loop observed and whether it called
\* analyze_fast_path
Tick(seen, dispatched) == [seen |-> seen, dispatched |-> dispatched]

\* a variant of CommitRange without reversed(): newest first, the order
\* iter_commits yields
RECURSIVE CommitRangeNewestFirst(_, _)
CommitRangeNewestFirst(last, tip) ==
    IF tip <= last THEN <<>> ELSE <<tip>> \o CommitRangeNewestFirst(last, tip - 1)

\* list(repo.iter_commits(f'{last}..HEAD')) reversed: the commits reachable
\* from HEAD and not from last, oldest first
RECURSIVE CommitRange(_, _)
CommitRange(last, tip) ==
    IF tip <= last THEN <<>> ELSE Append(CommitRange(last, tip - 1), tip)

\* a variant of WatcherStart without the two checks of lines 10-22
WatcherStartUnchecked ==
    /\ w_pc = "start"
    /\ lock = "free"
    /\ current_head' = head
    /\ w_pc' = IF last_analyzed_commit # NoCommit /\ last_analyzed_commit # head
               THEN "backlog" ELSE "enter_loop"
    /\ UNCHANGED <<storeVars, diskVars, lock, client, requestVars, screenVars,
                   repoVars, histVars, w_from, commits_to_process,
                   last_commit_hash, last_diff_text, diff_text, w_commit,
                   charter_update, completed_goals, fast_issue>>

\* lines 10-28: not a repository or no HEAD commit (return); else HEAD is
\* read, then the persisted cursor under the lock
WatcherStart ==
    /\ w_pc = "start"
    /\ IF ~is_repo \/ head = NoCommit
       THEN /\ w_pc' = "stopped"
            /\ UNCHANGED current_head
       ELSE /\ lock = "free"
            /\ current_head' = head
            /\ w_pc' = IF last_analyzed_commit # NoCommit /\ last_analyzed_commit # head
                       THEN "backlog" ELSE "enter_loop"
    /\ UNCHANGED <<storeVars, diskVars, lock, client, requestVars, screenVars,
                   repoVars, histVars, w_from, commits_to_process,
                   last_commit_hash, last_diff_text, diff_text, w_commit,
                   charter_update, completed_goals, fast_issue>>

\* lines 29-35, 39-41: the backlog is listed; listing raises when the cursor
\* names no commit of the repository.  The cursor is the one line 26 read:
\* nothing writes it between that read and the listing.
WatcherListBacklog ==
    /\ w_pc = "backlog"
    /\ IF last_analyzed_commit > head
       THEN /\ w_pc' = "enter_loop"
            /\ UNCHANGED <<commits_to_process, listed>>
       ELSE /\ commits_to_process' = CommitRange(last_analyzed_commit, head)
            /\ listed' = <<[cursor |-> last_analyzed_commit, tip |-> head]>>
            /\ w_pc' = "replay"
    /\ UNCHANGED <<storeVars, diskVars, lock, client, requestVars, screenVars,
                   repoVars, deep_log, tick_prev, tick_cur, tick_raised, w_in_flight, w_from, current_head,
                   last_commit_hash,
                   last_diff_text, diff_text, w_commit, charter_update,
                   completed_goals, fast_issue>>

\* lines 36-38: the next backlog commit is handed to analyze_deep_path, or
\* the loop is over
WatcherReplay ==
    /\ w_pc = "replay"
    /\ IF commits_to_process = <<>>
       THEN /\ w_pc' = "enter_loop"
            /\ UNCHANGED <<commits_to_process, w_commit, w_from, deep_log,
                           w_in_flight>>
       ELSE /\ w_commit' = Head(commits_to_process)
            /\ commits_to_process' = Tail(commits_to_process)
            /\ w_from' = "replay"
            /\ deep_log' = Append(deep_log, [commit |-> Head(commits_to_process),
                                             from |-> "replay", outcome |-> "running"])
            /\ w_in_flight' = [w_in_flight EXCEPT !.deep = @ + 1]
            /\ w_pc' = "deep"
    /\ UNCHANGED <<storeVars, diskVars, lock, client, requestVars, screenVars,
                   repoVars, tick_prev, tick_cur, tick_raised, listed, current_head, last_commit_hash,
                   last_diff_text, diff_text, charter_update, completed_goals,
                   fast_issue>>

\* lines 43-44
WatcherEnterLoop ==
    /\ w_pc = "enter_loop"
    /\ last_commit_hash' = current_head
    /\ last_diff_text' = ""
    /\ w_pc' = "tick"
    /\ UNCHANGED <<storeVars, diskVars, lock, client, requestVars, screenVars,
                   repoVars, histVars, w_from, current_head, commits_to_process,
                   diff_text, w_commit, charter_update, completed_goals, fast_issue>>

\* a variant of DiffIsNew without the comparison to the fingerprint
DiffIsNonEmpty(text, last) == text # ""

\* the test of line 68
DiffIsNew(text, last) == text # "" /\ text # last

\* lines 52-79: the uncommitted changes are read (reading may raise); a new
\* text is handed to analyze_fast_path, no change clears the fingerprint.
\* diff_text is read again only by line 74, after analyze_fast_path.
WatcherTickDiff ==
    /\ w_pc = "tick"
    /\ \/ /\ w_pc' = "sleep"
          /\ tick_raised' = TRUE
          /\ UNCHANGED <<diff_text, last_diff_text, tick_prev, tick_cur,
                         w_in_flight>>
       \/ /\ worktree = Clean
          /\ last_diff_text' = ""
          /\ tick_prev' = tick_cur
          /\ tick_cur' = Tick(Clean, FALSE)
          /\ w_pc' = "tick_commit"
          /\ UNCHANGED <<diff_text, w_in_flight, tick_raised>>
       \/ /\ worktree # Clean
          /\ diff_text' = IF DiffIsNew(worktree, last_diff_text) THEN worktree ELSE ""
          /\ tick_prev' = tick_cur
          /\ tick_cur' = Tick(worktree, DiffIsNew(worktree, last_diff_text))
          /\ w_pc' = IF DiffIsNew(worktree, last_diff_text) THEN "fast" ELSE "tick_commit"
          /\ w_in_flight' = IF DiffIsNew(worktree, last_diff_text)
                            THEN [w_in_flight EXCEPT !.fast = @ + 1]
                            ELSE w_in_flight
          /\ UNCHANGED <<last_diff_text, tick_raised>>
    /\ UNCHANGED <<storeVars, diskVars, lock, client, requestVars, screenVars,
                   repoVars, deep_log, listed, w_from, current_head,
                   commits_to_process, last_commit_hash, w_commit, charter_update,
                   completed_goals, fast_issue>>

\* a variant of WatcherFastReturn that records the fingerprint only when
\* the analysis admitted a finding
WatcherFastReturnOnFinding ==
    /\ w_pc = "fast_return"
    /\ last_diff_text' = IF fast_issue # <<>> THEN diff_text ELSE last_diff_text
    /\ diff_text' = ""
    /\ fast_issue' = <<>>
    /\ w_pc' = "tick_commit"
    /\ UNCHANGED <<storeVars, diskVars, lock, client, requestVars, screenVars,
                   repoVars, histVars, w_from, current_head, commits_to_process,
                   last_commit_hash, w_commit, charter_update, completed_goals>>

\* line 74: analyze_fast_path has returned
WatcherFastReturn ==
    /\ w_pc = "fast_return"
    /\ last_diff_text' = diff_text
    /\ diff_text' = ""
    /\ fast_issue' = <<>>
    /\ w_pc' = "tick_commit"
    /\ UNCHANGED <<storeVars, diskVars, lock, client, requestVars, screenVars,
                   repoVars, histVars, w_from, current_head, commits_to_process,
                   last_commit_hash, w_commit, charter_update, completed_goals>>

\* a variant of WatcherTickCommit outside the try block: an exception ends
\* the thread
WatcherTickCommitUncaught ==
    /\ w_pc = "tick_commit"
    /\ \/ /\ w_pc' = "stopped"
          /\ tick_raised' = TRUE
          /\ UNCHANGED <<w_commit, w_from, deep_log, w_in_flight>>
       \/ /\ head = last_commit_hash
          /\ w_pc' = "sleep"
          /\ tick_raised' = FALSE
          /\ UNCHANGED <<w_commit, w_from, deep_log, w_in_flight>>
       \/ /\ head # last_commit_hash
          /\ w_commit' = head
          /\ w_from' = "tick"
          /\ deep_log' = Append(deep_log, [commit |-> head, from |-> "tick",
                                           outcome |-> "running"])
          /\ w_in_flight' = [w_in_flight EXCEPT !.deep = @ + 1]
          /\ w_pc' = "deep"
          /\ UNCHANGED tick_raised
    /\ UNCHANGED <<storeVars, diskVars, lock, client, requestVars, screenVars,
                   repoVars, tick_prev, tick_cur, listed, current_head, commits_to_process,
                   last_commit_hash, last_diff_text, diff_text, charter_update,
                   completed_goals, fast_issue>>

\* lines 82-86: HEAD is read (reading may raise); a HEAD other than the
\* last one seen is handed to analyze_deep_path
WatcherTickCommit ==
    /\ w_pc = "tick_commit"
    /\ \/ /\ w_pc' = "sleep"
          /\ tick_raised' = TRUE
          /\ UNCHANGED <<w_commit, w_from, deep_log, w_in_flight>>
       \/ /\ head = last_commit_hash
          /\ w_pc' = "sleep"
          /\ tick_raised' = FALSE
          /\ UNCHANGED <<w_commit, w_from, deep_log, w_in_flight>>
       \/ /\ head # last_commit_hash
          /\ w_commit' = head
          /\ w_from' = "tick"
          /\ deep_log' = Append(deep_log, [commit |-> head, from |-> "tick",
                                           outcome |-> "running"])
          /\ w_in_flight' = [w_in_flight EXCEPT !.deep = @ + 1]
          /\ w_pc' = "deep"
          /\ UNCHANGED tick_raised
    /\ UNCHANGED <<storeVars, diskVars, lock, client, requestVars, screenVars,
                   repoVars, tick_prev, tick_cur, listed, current_head, commits_to_process,
                   last_commit_hash, last_diff_text, diff_text, charter_update,
                   completed_goals, fast_issue>>

\* a variant of WatcherTickEnd that records the commit only when the deep
\* path advanced the cursor to it
WatcherTickEndOnSuccess ==
    /\ w_pc = "tick_end"
    /\ last_commit_hash' = IF last_analyzed_commit = w_commit
                           THEN w_commit ELSE last_commit_hash
    /\ tick_raised' = FALSE
    /\ w_pc' = "sleep"
    /\ UNCHANGED <<storeVars, diskVars, lock, client, requestVars, screenVars,
                   repoVars, deep_log, tick_prev, tick_cur, listed, w_in_flight,
                   w_from, current_head, commits_to_process,
                   last_diff_text, diff_text, w_commit, charter_update,
                   completed_goals, fast_issue>>

\* line 87: analyze_deep_path has returned to the live loop
WatcherTickEnd ==
    /\ w_pc = "tick_end"
    /\ last_commit_hash' = w_commit
    /\ tick_raised' = FALSE
    /\ w_pc' = "sleep"
    /\ UNCHANGED <<storeVars, diskVars, lock, client, requestVars, screenVars,
                   repoVars, deep_log, tick_prev, tick_cur, listed, w_in_flight,
                   w_from, current_head, commits_to_process,
                   last_diff_text, diff_text, w_commit, charter_update,
                   completed_goals, fast_issue>>

\* line 92: time.sleep(1)
WatcherSleep ==
    /\ w_pc = "sleep"
    /\ w_pc' = "tick"
    /\ UNCHANGED <<storeVars, diskVars, lock, client, requestVars, screenVars,
                   repoVars, histVars, w_from, current_head, commits_to_process,
                   last_commit_hash, last_diff_text, diff_text, w_commit,
                   charter_update, completed_goals, fast_issue>>

(***************************************************************************)
(* The developer, who commits and edits the working tree.                  *)
(***************************************************************************)
DeveloperCommits ==
    /\ is_repo
    /\ head < MaxCommits
    /\ head' = head + 1
    /\ \/ empty_commits' = empty_commits
       \/ empty_commits' = empty_commits \cup {head + 1}
    /\ UNCHANGED <<storeVars, diskVars, lock, client, requestVars, screenVars,
                   watcherVars, histVars, is_repo, worktree>>

\* the developer checks out another of the repository's MaxCommits commits,
\* while the watcher has made fewer than MaxDispatches deep-path calls
DeveloperChecksOut ==
    /\ is_repo
    /\ Len(deep_log) < MaxDispatches
    /\ \E c \in (1 .. MaxCommits) \ {head} : head' = c
    /\ UNCHANGED <<storeVars, diskVars, lock, client, requestVars, screenVars,
                   watcherVars, histVars, is_repo, worktree, empty_commits>>

DeveloperEdits ==
    /\ is_repo
    /\ \E w \in WorkTrees \ {worktree} : worktree' = w
    /\ UNCHANGED <<storeVars, diskVars, lock, client, requestVars, screenVars,
                   watcherVars, histVars, is_repo, head, empty_commits>>

(***************************************************************************)
(* Restart: the process ends and main() runs again up to the start of the  *)
(* threads (daemon.py 258-263), over a state.json that holds an            *)
(* initialized charter, so that the first full scan is not run.            *)
(***************************************************************************)
\* daemon.state as the module defines it (lines 21-30), as a dict
DefaultState ==
    [security_score |-> MaxScore, active_issues |-> <<>>,
     project_charter |-> DefaultCharter, last_analyzed_commit |-> NoCommit,
     dismissed_issues |-> <<>>, false_positives |-> <<>>]

\* json.load(f) of a document the writer wrote
Loaded(document) ==
    [document EXCEPT !.last_analyzed_commit = CommitOfJson(@)]

\* a variant of Updated in which the keys the store already has keep their
\* values (dict.setdefault for every key of the document)
Defaulted(store, document) ==
    [k \in DOMAIN store \cup DOMAIN document |->
        IF k \in DOMAIN store THEN store[k] ELSE document[k]]

\* state.update(loaded_state): every top-level key of the document replaces
\* the store's value; a key the document lacks keeps its value
Updated(store, document) ==
    [k \in DOMAIN store \cup DOMAIN document |->
        IF k \in DOMAIN document THEN document[k] ELSE store[k]]

Restart ==
    /\ w_pc # "start"
    /\ state_file # <<>>
    /\ state_file[1].project_charter.initialized
    /\ LET state == Updated(DefaultState, Loaded(state_file[1])) IN
          /\ security_score' = state.security_score
          /\ active_issues' = state.active_issues
          /\ project_charter' = state.project_charter
          /\ last_analyzed_commit' = state.last_analyzed_commit
          /\ dismissed_issues' = state.dismissed_issues
          /\ false_positives' = state.false_positives
    /\ lock' = "free"
    /\ response' = NoReply
    /\ caller_view' = <<>>
    /\ s_pc' = "idle"
    /\ suggestion' = NoSuggestion
    /\ existing_issues' = NoRef
    /\ triage_result' = Rejected
    /\ triage_calls' = 0
    /\ triage_path' = "none"
    /\ w_pc' = "start"
    /\ w_from' = "replay"
    /\ current_head' = NoCommit
    /\ commits_to_process' = <<>>
    /\ last_commit_hash' = NoCommit
    /\ last_diff_text' = ""
    /\ diff_text' = ""
    /\ w_commit' = NoCommit
    /\ charter_update' = <<>>
    /\ completed_goals' = {}
    /\ fast_issue' = <<>>
    /\ deep_log' = <<>>
    /\ tick_prev' = Tick(NotSeen, FALSE)
    /\ tick_cur' = Tick(NotSeen, FALSE)
    /\ listed' = <<>>
    /\ w_in_flight' = [fast |-> 0, deep |-> 0]
    /\ tick_raised' = FALSE
    /\ s_in_flight' = 0
    /\ UNCHANGED <<diskVars, client, repoVars>>

\* the file system starts or stops refusing writes of either file
DiskChanges ==
    /\ \E a, b \in BOOLEAN :
          /\ <<a, b>> # <<state_writable, charter_writable>>
          /\ state_writable' = a
          /\ charter_writable' = b
    /\ UNCHANGED <<storeVars, state_file, charter_file, lock, client, requestVars,
                   screenVars, watcherSide>>

(***************************************************************************)
(* Initial states: the daemon after main() has loaded state.json (if any), *)
(* initialized the client and run the first full scan, when the threads    *)
(* are started.                                                            *)
(***************************************************************************)
\* the issues a loaded store holds in this model
LoadedIssues ==
    {Issue("Exposed secret", KeyInConfig, "Critical", NoScore),
     Issue("Proactive - security", KeyFile, "High", 4),
     Issue("Proactive - bug", OnlyBlank, "High", 5)}

\* the false-positive records a loaded store holds in this model
LoadedFalsePositives ==
    {[description |-> d, type |-> "Proactive - security", severity |-> "High",
      marked_at |-> 1, note |-> ""] : d \in StoredTexts \cup {<<>>}}

\* the charter item lists a loaded store holds in this model
LoadedItems ==
    {<<CharterItem("ship the api", FALSE, NoCommit)>>,
     <<CharterItem("ship the api", TRUE, 1)>>}

\* daemon.state as the module defines it (lines 21-30)
DefaultStore ==
    /\ security_score = MaxScore
    /\ active_issues = <<>>
    /\ project_charter = DefaultCharter
    /\ last_analyzed_commit = NoCommit
    /\ dismissed_issues = <<>>
    /\ false_positives = <<>>

\* the lock free, no request served yet
RequestsAtStart ==
    /\ lock = "free"
    /\ response = NoReply
    /\ caller_view = <<>>

\* the screenshot thread before its first screenshot
ScreenAtStart ==
    /\ s_pc = "idle"
    /\ suggestion = NoSuggestion
    /\ existing_issues = NoRef
    /\ triage_result = Rejected
    /\ triage_calls = 0
    /\ triage_path = "none"
    /\ s_in_flight = 0

\* the watcher thread before watcher.start runs
WatcherAtStart ==
    /\ w_pc = "start"
    /\ w_from = "replay"
    /\ current_head = NoCommit
    /\ commits_to_process = <<>>
    /\ last_commit_hash = NoCommit
    /\ last_diff_text = ""
    /\ diff_text = ""
    /\ w_commit = NoCommit
    /\ charter_update = <<>>
    /\ completed_goals = {}
    /\ fast_issue = <<>>
    /\ deep_log = <<>>
    /\ tick_prev = Tick(NotSeen, FALSE)
    /\ tick_cur = Tick(NotSeen, FALSE)
    /\ listed = <<>>
    /\ w_in_flight = [fast |-> 0, deep |-> 0]
    /\ tick_raised = FALSE

\* the watcher thread inside analyze_deep_path, at its call of the writer
WatcherBeforeSave ==
    /\ w_pc = "save"
    /\ w_from = "replay"
    /\ current_head = NoCommit
    /\ commits_to_process = <<>>
    /\ last_commit_hash = NoCommit
    /\ last_diff_text = ""
    /\ diff_text = ""
    /\ w_commit = NoCommit
    /\ charter_update = <<>>
    /\ completed_goals = {}
    /\ fast_issue = <<>>
    /\ deep_log = <<>>
    /\ tick_prev = Tick(NotSeen, FALSE)
    /\ tick_cur = Tick(NotSeen, FALSE)
    /\ listed = <<>>
    /\ w_in_flight = [fast |-> 0, deep |-> 1]
    /\ tick_raised = FALSE

\* state.json and context.vibe exist exactly when a charter was initialized
\* and saved; the store then is the one loaded from state.json
FilesMatchStore ==
    /\ state_file = IF project_charter.initialized THEN <<StoreDocument>> ELSE <<>>
    /\ charter_file = IF project_charter.initialized THEN <<RenderedCharter>> ELSE <<>>
    /\ state_writable = TRUE
    /\ charter_writable = TRUE

\* a project directory without a repository
NoRepository ==
    /\ is_repo = FALSE
    /\ head = NoCommit
    /\ worktree = Clean
    /\ empty_commits = {}

\* the charter a loaded store holds in the request layer's model
LoadedCharter ==
    [initialized |-> TRUE, description |-> "a daemon",
     charter_items |-> <<CharterItem("ship the api", TRUE, 1)>>]

\* the request layer over a store loaded from state.json
InitRequests ==
    /\ security_score = MaxScore - ScorePenalty
    /\ active_issues \in SeqsUpTo(LoadedIssues, MaxIssues)
    /\ project_charter = LoadedCharter
    /\ last_analyzed_commit = 1
    /\ dismissed_issues = <<>>
    /\ false_positives = <<>>
    /\ client = TRUE
    /\ FilesMatchStore
    /\ NoRepository
    /\ RequestsAtStart
    /\ ScreenAtStart
    /\ WatcherAtStart

RequestNext ==
    \/ get_state
    \/ clear_issues
    \/ DeleteRequest
    \/ FeedbackRequest

RequestSpec == InitRequests /\ [][RequestNext]_vars

\* a call of triage_suggestions(new_suggestion, existing_issues, state, lock)
\* with any candidate, over a loaded store
InitTriage ==
    /\ security_score = MaxScore
    /\ active_issues \in SeqsUpTo({i \in LoadedIssues : i.priority_score # 5}, MaxIssues)
    /\ project_charter = DefaultCharter
    /\ last_analyzed_commit = NoCommit
    /\ dismissed_issues = <<>>
    /\ false_positives \in SeqsUpTo(LoadedFalsePositives, MaxFeedback)
    /\ client \in BOOLEAN
    /\ state_file = <<>>
    /\ charter_file = <<>>
    /\ state_writable = TRUE
    /\ charter_writable = TRUE
    /\ NoRepository
    /\ RequestsAtStart
    /\ WatcherAtStart
    /\ s_pc = "triage_feedback"
    /\ suggestion \in Candidates(AllTexts \ {<<>>})
    /\ existing_issues = LiveRef
    /\ triage_result = Rejected
    /\ triage_calls = 0
    /\ triage_path = "none"
    /\ s_in_flight = 1

TriageNext ==
    \/ TriageFeedbackCheck
    \/ TriageNoClient
    \/ TriageGateway

TriageSpec == InitTriage /\ [][TriageNext]_vars

\* the screenshot thread over a loaded store, with a client
InitScreen ==
    /\ security_score = MaxScore
    /\ active_issues \in SeqsUpTo({i \in LoadedIssues : i.priority_score # 5}, MaxIssues - 1)
    /\ project_charter = DefaultCharter
    /\ last_analyzed_commit = NoCommit
    /\ dismissed_issues = <<>>
    /\ false_positives \in SeqsUpTo(LoadedFalsePositives, MaxFeedback)
    /\ client \in BOOLEAN
    /\ state_file = <<>>
    /\ charter_file = <<>>
    /\ state_writable = TRUE
    /\ charter_writable = TRUE
    /\ NoRepository
    /\ RequestsAtStart
    /\ WatcherAtStart
    /\ ScreenAtStart

ScreenNext ==
    \/ ScreenStart
    \/ ScreenContext
    \/ ScreenGateway
    \/ ScreenReadIssues
    \/ TriageFeedbackCheck
    \/ TriageGateway
    \/ ScreenAdmit
    \/ ScreenSleep

ScreenSpec == InitScreen /\ [][ScreenNext]_vars

\* the watcher thread and the developer, over a default or loaded store
InitWatcher ==
    /\ security_score = MaxScore
    /\ active_issues = <<>>
    /\ \/ /\ project_charter = DefaultCharter
          /\ last_analyzed_commit = NoCommit
       \/ /\ project_charter \in
                 {[initialized |-> TRUE, description |-> "a daemon", charter_items |-> it] :
                      it \in LoadedItems}
          /\ last_analyzed_commit \in 1 .. MaxCommits
    /\ dismissed_issues = <<>>
    /\ false_positives = <<>>
    /\ client \in BOOLEAN
    /\ FilesMatchStore
    /\ \/ NoRepository
       \/ /\ is_repo = TRUE
          /\ head \in 1 .. MaxCommits
          /\ worktree = Clean
          /\ empty_commits \in {E \in SUBSET (1 .. head) : Cardinality(E) <= 1}
    /\ RequestsAtStart
    /\ ScreenAtStart
    /\ WatcherAtStart

\* the watcher thread with a developer who commits and leaves no
\* uncommitted change
CommitNext ==
    \/ WatcherStart
    \/ WatcherListBacklog
    \/ WatcherReplay
    \/ WatcherEnterLoop
    \/ WatcherTickDiff
    \/ WatcherTickCommit
    \/ WatcherTickEnd
    \/ WatcherSleep
    \/ DeepEntry
    \/ DeepDiff
    \/ DeepSkip
    \/ DeepGateway
    \/ DeepMerge
    \/ DeepAlign
    \/ DeepMark
    \/ SaveAcquire
    \/ SaveStateFile
    \/ SaveCharterFile
    \/ DeveloperCommits

CommitSpec == InitWatcher /\ [][CommitNext]_vars

\* the watcher thread with a developer who edits the working tree and does
\* not commit, the persisted cursor being at HEAD or absent
InitEdits ==
    /\ InitWatcher
    /\ is_repo
    /\ last_analyzed_commit \in {NoCommit, head}

EditNext ==
    \/ WatcherStart
    \/ WatcherEnterLoop
    \/ WatcherTickDiff
    \/ FastGateway
    \/ FastAdmit
    \/ WatcherFastReturn
    \/ WatcherTickCommit
    \/ WatcherSleep
    \/ DeveloperEdits

EditSpec == InitEdits /\ [][EditNext]_vars

\* the dismissed records a store holds in this model
LoadedDismissed ==
    {[description |-> KeyInConfig, type |-> "Exposed secret", dismissed_at |-> 1,
      note |-> "noisy"]}

\* the charters a saved store holds in this model: up to MaxItems + 1 items,
\* completed or not
SavedCharters ==
    {[initialized |-> TRUE, description |-> "a daemon", charter_items |-> it] :
         it \in SeqsUpTo(ProposedItems, MaxItems + 1)}

\* the writer called on a store of any content, the daemon restarted after
\* or during the save
InitRestart ==
    /\ security_score \in {MaxScore, MaxScore - ScorePenalty}
    /\ active_issues \in SeqsUpTo(LoadedIssues, MaxIssues)
    /\ project_charter \in SavedCharters
    /\ last_analyzed_commit \in {NoCommit} \cup (1 .. MaxCommits)
    /\ dismissed_issues \in SeqsUpTo(LoadedDismissed, MaxFeedback)
    /\ false_positives \in
           SeqsUpTo({r \in LoadedFalsePositives : r.description \in {KeyFile, <<>>}},
                    MaxFeedback)
    /\ client = TRUE
    /\ state_file = <<>>
    /\ charter_file = <<>>
    /\ state_writable = TRUE
    /\ charter_writable \in BOOLEAN
    /\ NoRepository
    /\ RequestsAtStart
    /\ ScreenAtStart
    /\ WatcherBeforeSave

RestartNext ==
    \/ SaveAcquire
    \/ SaveStateFile
    \/ SaveCharterFile
    \/ Restart

RestartSpec == InitRestart /\ [][RestartNext]_vars

\* one screenshot analysis and the request handlers over a loaded store with
\* no feedback yet, with a client
InitInterleaved ==
    /\ security_score = MaxScore
    /\ active_issues \in SeqsUpTo({i \in LoadedIssues : i.priority_score # 5}, MaxIssues - 1)
    /\ project_charter = DefaultCharter
    /\ last_analyzed_commit = NoCommit
    /\ dismissed_issues = <<>>
    /\ false_positives = <<>>
    /\ client = TRUE
    /\ state_file = <<>>
    /\ charter_file = <<>>
    /\ state_writable = TRUE
    /\ charter_writable = TRUE
    /\ NoRepository
    /\ RequestsAtStart
    /\ WatcherAtStart
    /\ ScreenAtStart

InterleavedNext ==
    \/ ScreenStart
    \/ ScreenContext
    \/ ScreenGateway
    \/ ScreenReadIssues
    \/ TriageFeedbackCheck
    \/ TriageGateway
    \/ ScreenAdmit
    \/ FeedbackRequest
    \/ DeleteRequest
    \/ clear_issues

InterleavedSpec == InitInterleaved /\ [][InterleavedNext]_vars

\* the writer called on a store of any content, over a file system that
\* may refuse the write of either file at any time, while issues are cleared
InitPersist ==
    /\ security_score \in {MaxScore, MaxScore - ScorePenalty}
    /\ active_issues \in SeqsUpTo(LoadedIssues, MaxIssues)
    /\ project_charter \in SavedCharters
    /\ last_analyzed_commit \in {NoCommit} \cup (1 .. MaxCommits)
    /\ dismissed_issues = <<>>
    /\ false_positives \in
           {<<>>} \cup {<<r>> : r \in {x \in LoadedFalsePositives : x.description = KeyFile}}
    /\ client = TRUE
    /\ state_file = <<>>
    /\ charter_file = <<>>
    /\ state_writable \in BOOLEAN
    /\ charter_writable \in BOOLEAN
    /\ NoRepository
    /\ RequestsAtStart
    /\ ScreenAtStart
    /\ WatcherBeforeSave

PersistNext ==
    \/ SaveAcquire
    \/ SaveStateFile
    \/ SaveCharterFile
    \/ DiskChanges
    \/ clear_issues

PersistSpec == InitPersist /\ [][PersistNext]_vars

\* the three writers at work on a loaded store: the screenshot thread back
\* from a triage that admitted its candidate, the request handlers, and the
\* watcher either replaying backlog commit 2 or about to admit a fast-path
\* finding in its first live tick
InitWriters ==
    /\ security_score = MaxScore
    /\ active_issues = <<Issue("Proactive - bug", OnlyBlank, "High", 5)>>
    /\ project_charter = LoadedCharter
    /\ last_analyzed_commit = 1
    /\ dismissed_issues = <<>>
    /\ false_positives = <<>>
    /\ client = TRUE
    /\ FilesMatchStore
    /\ RequestsAtStart
    /\ s_pc = "triage_done"
    /\ suggestion = Suggestion(TRUE, "security", KeyFile, "High")
    /\ existing_issues = LiveRef
    /\ triage_result = Admitted(FallbackIssue(suggestion, CautiousPriority))
    /\ triage_calls = 1
    /\ triage_path = "error"
    /\ s_in_flight = 1
    /\ is_repo = TRUE
    /\ w_from = "replay"
    /\ commits_to_process = <<>>
    /\ last_diff_text = ""
    /\ charter_update = <<>>
    /\ completed_goals = {}
    /\ tick_prev = Tick(NotSeen, FALSE)
    /\ \/ /\ head = 2
          /\ worktree = Clean
          /\ empty_commits \in {{}, {2}}
          /\ w_pc = "deep"
          /\ w_commit = 2
          /\ current_head = 2
          /\ last_commit_hash = NoCommit
          /\ diff_text = ""
          /\ fast_issue = <<>>
          /\ deep_log = <<[commit |-> 2, from |-> "replay", outcome |-> "running"]>>
          /\ tick_cur = Tick(NotSeen, FALSE)
          /\ listed = <<[cursor |-> 1, tip |-> 2]>>
          /\ w_in_flight = [fast |-> 0, deep |-> 1]
          /\ tick_raised = FALSE
       \/ /\ head = 1
          /\ worktree \in DiffTexts
          /\ empty_commits = {}
          /\ w_pc = "fast_admit"
          /\ w_commit = NoCommit
          /\ current_head = 1
          /\ last_commit_hash = 1
          /\ diff_text = worktree
          /\ fast_issue \in {<<f>> : f \in FastFindings}
          /\ deep_log = <<>>
          /\ tick_cur = Tick(worktree, TRUE)
          /\ listed = <<>>
          /\ w_in_flight = [fast |-> 1, deep |-> 0]
          /\ tick_raised = FALSE

WritersNext ==
    \/ DeepEntry
    \/ DeepDiff
    \/ DeepSkip
    \/ DeepGateway
    \/ DeepMerge
    \/ DeepAlign
    \/ DeepMark
    \/ SaveAcquire
    \/ SaveStateFile
    \/ SaveCharterFile
    \/ FastAdmit
    \/ ScreenAdmit
    \/ FeedbackRequest
    \/ DeleteRequest
    \/ clear_issues

WritersSpec == InitWriters /\ [][WritersNext]_vars

\* the watcher replaying backlog commit 2 or analyzing a new uncommitted
\* diff in its first live tick, the screenshot thread before a screenshot,
\* and callers who read the state and clear the issues
InitGateway ==
    /\ security_score = MaxScore
    /\ active_issues = <<>>
    /\ project_charter = LoadedCharter
    /\ last_analyzed_commit = 1
    /\ dismissed_issues = <<>>
    /\ false_positives = <<>>
    /\ client = TRUE
    /\ FilesMatchStore
    /\ RequestsAtStart
    /\ ScreenAtStart
    /\ is_repo = TRUE
    /\ w_from = "replay"
    /\ commits_to_process = <<>>
    /\ last_diff_text = ""
    /\ charter_update = <<>>
    /\ completed_goals = {}
    /\ fast_issue = <<>>
    /\ tick_prev = Tick(NotSeen, FALSE)
    /\ \/ /\ head = 2
          /\ worktree = Clean
          /\ empty_commits \in {{}, {2}}
          /\ w_pc = "deep"
          /\ w_commit = 2
          /\ current_head = 2
          /\ last_commit_hash = NoCommit
          /\ diff_text = ""
          /\ deep_log = <<[commit |-> 2, from |-> "replay", outcome |-> "running"]>>
          /\ tick_cur = Tick(NotSeen, FALSE)
          /\ listed = <<[cursor |-> 1, tip |-> 2]>>
          /\ w_in_flight = [fast |-> 0, deep |-> 1]
          /\ tick_raised = FALSE
       \/ /\ head = 1
          /\ worktree \in DiffTexts
          /\ empty_commits = {}
          /\ w_pc = "fast"
          /\ w_commit = NoCommit
          /\ current_head = 1
          /\ last_commit_hash = 1
          /\ diff_text = worktree
          /\ deep_log = <<>>
          /\ tick_cur = Tick(worktree, TRUE)
          /\ listed = <<>>
          /\ w_in_flight = [fast |-> 1, deep |-> 0]
          /\ tick_raised = FALSE

GatewayNext ==
    \/ DeepEntry
    \/ DeepDiff
    \/ DeepSkip
    \/ DeepGateway
    \/ DeepMerge
    \/ DeepAlign
    \/ DeepMark
    \/ SaveAcquire
    \/ SaveStateFile
    \/ SaveCharterFile
    \/ FastGateway
    \/ FastAdmit
    \/ ScreenStart
    \/ ScreenContext
    \/ ScreenGateway
    \/ ScreenReadIssues
    \/ TriageFeedbackCheck
    \/ TriageGateway
    \/ ScreenAdmit
    \/ get_state
    \/ clear_issues

GatewaySpec == InitGateway /\ [][GatewayNext]_vars

(***************************************************************************)
(* Properties.                                                             *)
(***************************************************************************)

\* C1 (CommitSpec).  Completion monotonicity: a goal that is completed in
\* the store before a deep-path merge is still completed after the merge
\* whenever the merged item list still contains that goal.
C1_CompletionMonotonic ==
    [][(w_pc = "deep_merge" /\ w_pc' = "deep_align") =>
          \A i \in DOMAIN project_charter.charter_items :
             \A j \in DOMAIN project_charter'.charter_items :
                (/\ project_charter.charter_items[i].completed
                 /\ project_charter'.charter_items[j].goal
                        = project_charter.charter_items[i].goal)
                => project_charter'.charter_items[j].completed]_vars

\* C2 (ScreenSpec).  Priority gating: when the Gateway triage answers a
\* suggestion with priority_score 3 or lower, nothing is appended to
\* active_issues; when it answers one with priority_score 4 or 5, that
\* suggestion is appended.
C2_PriorityGating ==
    [][(/\ s_pc = "triage_done"
        /\ s_pc' = "returned"
        /\ triage_path = "result"
        /\ triage_result.triaged # <<>>)
       => IF triage_result.triaged[1].priority_score <= 3
          THEN active_issues' = active_issues
          ELSE active_issues' = Append(active_issues, triage_result.triaged[1])]_vars

\* C3 (TriageSpec).  False-positive suppression: once the feedback check of
\* triage_suggestions has run, a candidate whose word-overlap ratio with
\* some stored false-positive description is above 0.70 has been rejected
\* by that check and no Gateway triage call was made; a candidate whose
\* ratio is at most 0.70 with every record was not rejected by that check.
C3_FalsePositiveSuppression ==
    s_pc \in {"triage_route", "triage_done"} =>
        IF \E i \in DOMAIN false_positives :
              LET A == Words(false_positives[i].description)
                  B == Words(suggestion.description)
              IN  /\ A # {}
                  /\ B # {}
                  /\ 10 * Cardinality(A \cap B) > 7 * Cardinality(A \cup B)
        THEN /\ s_pc = "triage_done"
             /\ triage_path = "false_positive"
             /\ triage_result = Rejected
             /\ triage_calls = 0
        ELSE triage_path # "false_positive"

\* a candidate was rejected as a known false positive though its text is not
\* the stored one, with a Gateway client at hand
C3_SuppressedWithClient ==
    /\ s_pc = "triage_done"
    /\ triage_path = "false_positive"
    /\ client
    /\ \A i \in DOMAIN false_positives :
          Words(false_positives[i].description) # Words(suggestion.description)

\* C4 (CommitSpec).  No backlog commit is skipped: last_analyzed_commit is
\* never past a commit of the replayed backlog whose deep path neither
\* merged nor skipped an empty diff.
C4_NoBacklogCommitSkipped ==
    \A k \in DOMAIN deep_log :
        (deep_log[k].from = "replay" /\ deep_log[k].commit < last_analyzed_commit)
        => deep_log[k].outcome \in {"merged", "skipped"}

\* C5 (CommitSpec).  Backlog replay order: after the backlog cursor..HEAD
\* was listed, the deep path is dispatched for the commits cursor + 1, ...,
\* HEAD in that order, once each, and by the time the live loop is entered
\* or makes a dispatch of its own, every one of them was dispatched and has
\* returned.
C5_ReplayOrder ==
    listed # <<>> =>
        LET first == listed[1].cursor
            count == listed[1].tip - listed[1].cursor
        IN  /\ \A k \in DOMAIN deep_log :
                  IF k <= count
                  THEN /\ deep_log[k].from = "replay"
                       /\ deep_log[k].commit = first + k
                  ELSE deep_log[k].from = "tick"
            /\ (\/ w_pc \in {"enter_loop", "tick", "tick_commit", "tick_end", "sleep"}
                \/ tick_cur.seen # NotSeen
                \/ Len(deep_log) > count)
               => /\ Len(deep_log) >= count
                  /\ \A k \in 1 .. count : deep_log[k].outcome # "running"

\* a backlog of two commits was replayed and the live loop is about to start
C5_TwoCommitsReplayed ==
    /\ w_pc = "enter_loop"
    /\ listed # <<>>
    /\ listed[1].tip - listed[1].cursor = 2
    /\ Len(deep_log) = 2

\* C6 (EditSpec).  Idempotent diff fingerprinting: a tick of the live loop
\* that observes the same non-empty diff text as the tick before it does not
\* dispatch the fast path; a tick that observes a non-empty diff text after
\* a tick that observed no uncommitted change (or another text, or as the
\* first tick) dispatches it.
C6_DiffFingerprint ==
    tick_cur.seen \in DiffTexts =>
        /\ tick_prev.seen = tick_cur.seen => ~tick_cur.dispatched
        /\ tick_prev.seen \notin {tick_cur.seen, ""} => tick_cur.dispatched

\* two ticks in a row observed the same text: the first dispatched it, the
\* second did not
C6_SameTextTwice ==
    /\ tick_prev = Tick("diff a", TRUE)
    /\ tick_cur = Tick("diff a", FALSE)
    /\ last_diff_text = "diff a"

\* C7 (RequestSpec).  Feedback index safety: submit_feedback, whatever the
\* action, and delete_issue, called with an index outside
\* [0, len(active_issues)), answer the invalid-index error and leave
\* active_issues, dismissed_issues and false_positives unchanged.
C7_FeedbackIndexSafety ==
    [][\A index \in Indexes :
          ~InRange(index, active_issues) =>
             /\ delete_issue(index) =>
                   /\ response' = InvalidIndex
                   /\ UNCHANGED <<active_issues, dismissed_issues, false_positives>>
             /\ \A action \in FeedbackActions, note \in Notes, now \in Times :
                   submit_feedback(index, action, note, now) =>
                      /\ response' = InvalidIndex
                      /\ UNCHANGED <<active_issues, dismissed_issues,
                                     false_positives>>]_vars

\* a request with an index out of range was answered while the list held
\* as many issues as the model allows
C7_InvalidIndexAnswered ==
    /\ response = InvalidIndex
    /\ Len(active_issues) = MaxIssues

\* C8 (RequestSpec).  Shifted-list detection: a dismiss, false_positive or
\* resolve that submit_feedback applies at an index the caller read removes
\* the issue the caller read at that index.
C8_ShiftedListDetected ==
    [][\A index \in Indexes, action \in {"dismiss", "false_positive", "resolve"},
          note \in Notes, now \in Times :
          (/\ submit_feedback(index, action, note, now)
           /\ InRange(index, caller_view)
           /\ active_issues' # active_issues)
          => active_issues[index + 1] = caller_view[index + 1]]_vars

\* C9 (ScreenSpec).  Admission is persisted: once analyze_screen_proactively
\* has returned after triage admitted the candidate, state.json exists and
\* its active_issues hold the admitted record.
C9_AdmissionPersisted ==
    (s_pc = "returned" /\ triage_result.should_add) =>
        /\ state_file # <<>>
        /\ \E k \in DOMAIN state_file[1].active_issues :
              state_file[1].active_issues[k] = triage_result.triaged[1]

\* C10 (TriageSpec).  Degraded-mode severity gate: when triage_suggestions
\* returns on a degraded path (no client, Gateway call raising, empty
\* response), the candidate is admitted only if its severity is "High".
C10_DegradedSeverityGate ==
    (/\ s_pc = "triage_done"
     /\ triage_path \in {"no_client", "error", "empty_response"}
     /\ triage_result.should_add)
    => suggestion.severity = "High"

\* C11 (TriageSpec).  Degraded-mode duplicate check: when
\* triage_suggestions returns on a degraded path (no client, Gateway call
\* raising, empty response), a candidate whose word-overlap ratio with the
\* description of some existing issue is above 0.80 is rejected.
C11_DegradedDuplicateCheck ==
    (/\ s_pc = "triage_done"
     /\ triage_path \in {"no_client", "error", "empty_response"}
     /\ \E i \in DOMAIN active_issues :
           LET A == Words(active_issues[i].description)
               B == Words(suggestion.description)
           IN  /\ A # {}
               /\ B # {}
               /\ 10 * Cardinality(A \cap B) > 8 * Cardinality(A \cup B))
    => ~triage_result.should_add

\* C12 (CommitSpec).  Completion is set only by the alignment check: the
\* merge of a deep path leaves every goal that was not completed not
\* completed, and the marking that follows completes an item only if its
\* index is in completed_goals, giving it the commit of this deep path.
C12_CompletionOnlyByAlignment ==
    [][/\ (w_pc = "deep_merge" /\ w_pc' = "deep_align") =>
             \A i \in DOMAIN project_charter.charter_items :
                \A j \in DOMAIN project_charter'.charter_items :
                   (/\ ~project_charter.charter_items[i].completed
                    /\ project_charter'.charter_items[j].goal
                           = project_charter.charter_items[i].goal)
                   => ~project_charter'.charter_items[j].completed
       /\ (w_pc = "deep_mark" /\ w_pc' = "save") =>
             \A i \in DOMAIN project_charter.charter_items :
                (/\ ~project_charter.charter_items[i].completed
                 /\ project_charter'.charter_items[i].completed)
                => /\ i - 1 \in completed_goals
                   /\ project_charter'.charter_items[i].completed_by_commit
                          = w_commit]_vars

\* C13 (CommitSpec).  Deep-path failure leaves state unchanged: the step on
\* which the charter-update call fails ends analyze_deep_path and changes
\* neither project_charter nor last_analyzed_commit nor either file.
C13_FailureLeavesState ==
    [][(w_pc = "deep_gateway" /\ w_pc' \notin {"deep_gateway", "deep_merge"}) =>
          /\ w_pc' = DeepReturn
          /\ UNCHANGED <<project_charter, last_analyzed_commit, state_file,
                         charter_file>>]_vars

\* analyze_deep_path has returned after its charter-update call failed for
\* a commit the cursor is behind
C13_GatewayFailed ==
    /\ w_pc \in {"replay", "tick_end"}
    /\ deep_log # <<>>
    /\ deep_log[Len(deep_log)].outcome = "failed"
    /\ last_analyzed_commit < deep_log[Len(deep_log)].commit

\* C14 (CommitSpec).  Empty-diff commit: once analyze_deep_path has returned
\* for a commit whose diff holds no text (and was computed), the call has
\* skipped the merge, last_analyzed_commit is at that commit or past it, and
\* state.json records a cursor at that commit or past it.
C14_EmptyDiffAdvances ==
    \A k \in DOMAIN deep_log :
        (/\ deep_log[k].commit \in empty_commits
         /\ deep_log[k].outcome # "diff_error"
         /\ \/ k < Len(deep_log)
            \/ w_pc \in {"replay", "enter_loop", "tick_end", "sleep", "tick",
                         "tick_commit"})
        => /\ deep_log[k].outcome = "skipped"
           /\ last_analyzed_commit >= deep_log[k].commit
           /\ state_file # <<>>
           /\ CommitOfJson(state_file[1].last_analyzed_commit) >= deep_log[k].commit

\* C15 (RequestSpec).  State-changing operations survive a restart: once a
\* feedback action, clear_issues or delete_issue has changed the store and
\* returned, state.json exists and holds the store's issue list and feedback
\* lists, which is what a restart loads.
C15_OperationPersisted ==
    response.message \in {"Issue dismissed", "Marked as false positive",
                          "Issue resolved", "Cleared issues", "Issue removed"}
    => /\ state_file # <<>>
       /\ state_file[1].active_issues = active_issues
       /\ state_file[1].dismissed_issues = dismissed_issues
       /\ state_file[1].false_positives = false_positives

C17_FeedbackMovesIssue ==
    [][\A index \in Indexes, note \in Notes, now \in Times :
          InRange(index, active_issues) =>
             LET issue == active_issues[index + 1]
                 removed ==
                     /\ Len(active_issues') = Len(active_issues) - 1
                     /\ \A j \in DOMAIN active_issues' :
                           active_issues'[j] =
                               IF j <= index THEN active_issues[j]
                                             ELSE active_issues[j + 1]
             IN  /\ submit_feedback(index, "dismiss", note, now) =>
                       /\ dismissed_issues' =
                              dismissed_issues \o
                                  <<[description |-> issue.description,
                                     type |-> issue.type,
                                     dismissed_at |-> now, note |-> note]>>
                       /\ false_positives' = false_positives
                       /\ removed
                 /\ submit_feedback(index, "false_positive", note, now) =>
                       /\ false_positives' =
                              false_positives \o
                                  <<[description |-> issue.description,
                                     type |-> issue.type,
                                     severity |-> issue.severity,
                                     marked_at |-> now, note |-> note]>>
                       /\ dismissed_issues' = dismissed_issues
                       /\ removed]_vars

\* the first of two different issues was marked as a false positive and the
\* second is now the only active issue
C17_FirstOfTwoMarked ==
    /\ response.message = "Marked as false positive"
    /\ Len(active_issues) = 1
    /\ Len(false_positives) = 1
    /\ false_positives[1].description # active_issues[1].description
    /\ false_positives[1].note = "noisy"

\* C18 (RequestSpec).  A resolve that submit_feedback applies at a valid
\* index i removes exactly the issue at index i from active_issues and adds
\* no history record: dismissed_issues, false_positives, security_score,
\* project_charter and last_analyzed_commit are unchanged.
C18_ResolveOnlyRemoves ==
    [][\A index \in Indexes, note \in Notes, now \in Times :
          (/\ InRange(index, active_issues)
           /\ submit_feedback(index, "resolve", note, now))
          => /\ Len(active_issues') = Len(active_issues) - 1
             /\ \A j \in DOMAIN active_issues' :
                   active_issues'[j] = IF j <= index THEN active_issues[j]
                                                     ELSE active_issues[j + 1]
             /\ UNCHANGED <<dismissed_issues, false_positives, security_score,
                            project_charter, last_analyzed_commit>>]_vars

\* the first of two different issues was resolved: the second is the only
\* active issue and the score is still the lowered one
C18_FirstOfTwoResolved ==
    /\ response.message = "Issue resolved"
    /\ Len(active_issues) = 1
    /\ active_issues[1].type # "Exposed secret"
    /\ caller_view # <<>>
    /\ caller_view[1].type = "Exposed secret"
    /\ Len(caller_view) = 2
    /\ security_score = MaxScore - ScorePenalty

\* C19 (InterleavedSpec).  In every interleaving of the screenshot loop with
\* the request handlers: no step removes or changes a record of
\* false_positives or dismissed_issues, and when the feedback check of a
\* triage runs while false_positives holds a record whose description has a
\* word-overlap ratio above 0.70 with the candidate's, the triage rejects
\* the candidate, so every triage started after a false_positive action
\* recorded such a description is rejected.
C19_RecordedFalsePositiveSuppresses ==
    [][/\ Len(false_positives') >= Len(false_positives)
       /\ SubSeq(false_positives', 1, Len(false_positives)) = false_positives
       /\ Len(dismissed_issues') >= Len(dismissed_issues)
       /\ SubSeq(dismissed_issues', 1, Len(dismissed_issues)) = dismissed_issues
       /\ (/\ s_pc = "triage_feedback"
           /\ s_pc' # "triage_feedback"
           /\ \E i \in DOMAIN false_positives :
                 LET A == Words(false_positives[i].description)
                     B == Words(suggestion.description)
                 IN  /\ A # {}
                     /\ B # {}
                     /\ 10 * Cardinality(A \cap B) > 7 * Cardinality(A \cup B))
          => /\ s_pc' = "triage_done"
             /\ triage_result' = Rejected]_vars

\* a false_positive action recorded an issue while the daemon ran, and a
\* later candidate with another text was rejected for matching it
C19_RejectedAfterFeedback ==
    /\ s_pc = "triage_done"
    /\ triage_path = "false_positive"
    /\ false_positives # <<>>
    /\ \A i \in DOMAIN false_positives :
          false_positives[i].description # suggestion.description

\* C20 (ScreenSpec).  Rejection does not mutate state: no step of a
\* screenshot analysis changes active_issues, security_score, the feedback
\* lists, project_charter or last_analyzed_commit, except the step that
\* follows a triage that admitted the candidate; in particular the analysis
\* returns from a rejecting triage with the store as it was.
C20_RejectionLeavesStore ==
    [][(\/ s_pc # "triage_done"
        \/ ~triage_result.should_add
        \/ triage_result.triaged = <<>>)
       => UNCHANGED <<active_issues, security_score, dismissed_issues,
                      false_positives, project_charter,
                      last_analyzed_commit>>]_vars

\* analyze_screen_proactively has returned after the Gateway's triage
\* rejected a candidate
C20_ReturnedAfterRejection ==
    /\ s_pc = "returned"
    /\ suggestion.has_suggestion
    /\ triage_path \in {"result", "error", "empty_response"}
    /\ triage_calls = 1
    /\ triage_result = Rejected

\* C21 (PersistSpec).  Best-effort dual persistence: the snapshot step of
\* the writer always goes on to the charter step, whether or not state.json
\* could be written; the charter step never changes state.json, writes
\* context.vibe whenever that file can be written, releases the lock and
\* returns to the caller whether or not it could; neither step changes the
\* in-memory store.
C21_BestEffortPersistence ==
    [][/\ (w_pc = "save_state" /\ w_pc' # "save_state")
          => /\ w_pc' = "save_charter"
             /\ state_writable => state_file' = <<StoreDocument>>
             /\ UNCHANGED <<storeVars, charter_file>>
       /\ (w_pc = "save_charter" /\ w_pc' # "save_charter")
          => /\ w_pc' = (IF w_from = "replay" THEN "replay" ELSE "tick_end")
             /\ lock' = "free"
             /\ state_file' = state_file
             /\ (charter_writable /\ last_analyzed_commit # NoCommit)
                    => charter_file' = <<RenderedCharter>>
             /\ UNCHANGED storeVars]_vars

\* the writer has returned having written state.json but not context.vibe
C21_SnapshotWithoutCharter ==
    /\ w_pc = "replay"
    /\ lock = "free"
    /\ state_file = <<StoreDocument>>
    /\ charter_file = <<>>
    /\ last_analyzed_commit # NoCommit

\* C22 (PersistSpec).  clear_issues runs as one step taken only while no
\* thread holds state_lock; from any store it leaves active_issues empty
\* and security_score at 100, and it leaves the feedback lists,
\* project_charter and last_analyzed_commit unchanged.
C22_ClearResetsIssuesAndScore ==
    [][clear_issues =>
          /\ lock = "free"
          /\ lock' = "free"
          /\ active_issues' = <<>>
          /\ security_score' = 100
          /\ UNCHANGED <<dismissed_issues, false_positives, project_charter,
                         last_analyzed_commit>>]_vars

\* issues were cleared after a save that had written them, from a lowered
\* score and with a false-positive record in the store
C22_ClearedAfterSave ==
    /\ response.message = "Cleared issues"
    /\ active_issues = <<>>
    /\ security_score = MaxScore
    /\ false_positives # <<>>
    /\ state_file # <<>>
    /\ Len(state_file[1].active_issues) = 2
    /\ state_file[1].security_score = MaxScore - ScorePenalty

\* C23 (PersistSpec).  Durable writes happen outside the lock: no thread
\* holds state_lock during a step that writes state.json or context.vibe.
C23_WritesOutsideLock ==
    [][(state_file' # state_file \/ charter_file' # charter_file)
       => lock = "free"]_vars

\* C24 (InterleavedSpec).  Lock discipline for reads: the steps of
\* triage_suggestions that scan or format existing_issues after the lock
\* was released do not read the store's live active_issues list, only a
\* copy of it taken under the lock.
C24_NoLiveReadOutsideLock ==
    [][(s_pc = "triage_route" /\ s_pc' = "triage_done")
       => ~existing_issues.live]_vars

\* C25 (WritersSpec).  All mutation under the lock: every step of the
\* watcher, the screenshot thread or a request handler that changes
\* active_issues, security_score, project_charter, last_analyzed_commit or
\* a feedback list is taken while no other thread holds state_lock, and
\* leaves the lock free again, so two writers are never inside a mutating
\* section together.
C25_MutationUnderLock ==
    [][storeVars' # storeVars => (lock = "free" /\ lock' = "free")]_vars

\* the persistence writer holds the lock after the deep path merged commit
\* 2, a request handler has removed an issue and the screenshot thread has
\* appended its own
C25_ThreeWritersWrote ==
    /\ lock = "watcher"
    /\ last_analyzed_commit = 2
    /\ response.message \in {"Issue dismissed", "Issue resolved", "Issue removed"}
    /\ s_pc = "returned"
    /\ active_issues = <<FallbackIssue(suggestion, CautiousPriority)>>

\* C26 (GatewaySpec).  Gateway calls happen outside the lock: state_lock is
\* held only by the watcher thread inside the persistence writer, so no
\* thread that is at a Gateway call (fast-path analysis, charter update,
\* alignment check, screenshot analysis, triage) holds it, and while the
\* watcher is at a Gateway call the lock is free for the request handlers.
C26_GatewayOutsideLock ==
    /\ lock # "free" => (lock = "watcher" /\ w_pc \in {"save_state", "save_charter"})
    /\ w_pc \in {"fast", "deep_gateway", "deep_align"} =>
           (lock = "free" /\ ENABLED clear_issues /\ ENABLED get_state)
    /\ s_pc \in {"gateway", "triage_route"} => lock # "screen"

\* the watcher is at its charter-update call and the screenshot thread at
\* its triage call, and a request has been served meanwhile
C26_BothAtGateway ==
    /\ w_pc = "deep_gateway"
    /\ s_pc = "triage_route"
    /\ lock = "free"
    /\ response.message = "Cleared issues"

(***************************************************************************)
(* The three threads main() starts (daemon.py 287-310) and the GET /state  *)
(* handler, over a loaded store whose cursor is at HEAD and whose issue    *)
(* list has room for one more issue, the working tree holding an           *)
(* uncommitted change, with a developer who commits.                       *)
(***************************************************************************)
InitLoops ==
    /\ security_score = MaxScore
    /\ active_issues \in {l \in SeqsUpTo({Issue("Proactive - bug", OnlyBlank, "High", 5)}, MaxIssues) :
                              Len(l) = MaxIssues - 1}
    /\ project_charter = LoadedCharter
    /\ last_analyzed_commit = MaxCommits - 1
    /\ dismissed_issues = <<>>
    /\ false_positives = <<>>
    /\ client = TRUE
    /\ FilesMatchStore
    /\ is_repo = TRUE
    /\ head = MaxCommits - 1
    /\ worktree = "diff a"
    /\ empty_commits = {}
    /\ RequestsAtStart
    /\ ScreenAtStart
    /\ WatcherAtStart

LoopsNext ==
    \/ WatcherStart
    \/ WatcherListBacklog
    \/ WatcherReplay
    \/ WatcherEnterLoop
    \/ WatcherTickDiff
    \/ FastGateway
    \/ FastAdmit
    \/ WatcherFastReturn
    \/ WatcherTickCommit
    \/ DeepEntry
    \/ DeepDiff
    \/ DeepSkip
    \/ DeepGateway
    \/ DeepMerge
    \/ DeepAlign
    \/ DeepMark
    \/ SaveAcquire
    \/ SaveStateFile
    \/ SaveCharterFile
    \/ WatcherTickEnd
    \/ WatcherSleep
    \/ ScreenStart
    \/ ScreenContext
    \/ ScreenGateway
    \/ ScreenReadIssues
    \/ TriageFeedbackCheck
    \/ TriageGateway
    \/ ScreenAdmit
    \/ ScreenSleep
    \/ get_state
    \/ DeveloperCommits

LoopsSpec == InitLoops /\ [][LoopsNext]_vars

\* C27: in every interleaving of the watcher loop, the screenshot loop and
\* the request handlers, at most one fast-path analysis, at most one
\* deep-path analysis and at most one screenshot analysis have been called
\* and have not returned.
C27_OneInFlightPerClass ==
    /\ w_in_flight.fast \in {0, 1}
    /\ w_in_flight.deep \in {0, 1}
    /\ s_in_flight \in {0, 1}

C27_DeepAndScreenInFlight ==
    /\ w_in_flight = [fast |-> 0, deep |-> 1]
    /\ tick_raised = FALSE
    /\ w_from = "tick"
    /\ s_in_flight = 1
    /\ s_pc = "triage_route"
    /\ security_score = MaxScore - ScorePenalty
    /\ response.message = "state"


\* C28 (CommitSpec).  Serial replay with a monotonic cursor: when the
\* backlog loop hands a commit to analyze_deep_path, no deep-path call is
\* in progress, the lock is free, and the merge, the marking and the
\* persist of the commit before it are complete (the cursor names it and
\* both files hold the store); and while the backlog is replayed the cursor
\* in memory and the cursor in state.json never move to an older commit.
C28_SerialReplay ==
    [][LET replaying ==
               \/ w_pc \in {"backlog", "replay"}
               \/ /\ w_from = "replay"
                  /\ w_pc \in {"deep", "deep_diff", "deep_skip", "deep_gateway",
                               "deep_merge", "deep_align", "deep_mark", "save",
                               "save_state", "save_charter"}
           onDisk(file) ==
               IF file = <<>> THEN NoCommit
               ELSE CommitOfJson(file[1].last_analyzed_commit)
       IN  /\ (w_pc = "replay" /\ w_pc' = "deep")
              => /\ w_in_flight.deep = 0
                 /\ lock = "free"
                 /\ charter_update = <<>>
                 /\ completed_goals = {}
                 /\ \A k \in DOMAIN deep_log : deep_log[k].outcome # "running"
                 /\ (/\ deep_log # <<>>
                     /\ deep_log[Len(deep_log)].outcome \in {"merged", "skipped"})
                    => /\ last_analyzed_commit = deep_log[Len(deep_log)].commit
                       /\ w_commit' = last_analyzed_commit + 1
                       /\ state_file = <<StoreDocument>>
                       /\ charter_file = <<RenderedCharter>>
           /\ replaying
              => /\ last_analyzed_commit' >= last_analyzed_commit
                 /\ onDisk(state_file') >= onDisk(state_file)]_vars

\* two backlog commits were replayed in turn, each merged and persisted
C28_SecondReplayedAfterFirstPersisted ==
    /\ w_pc = "replay"
    /\ Len(deep_log) = 2
    /\ \A k \in {1, 2} : deep_log[k] = [commit |-> listed[1].cursor + k,
                                        from |-> "replay", outcome |-> "merged"]
    /\ last_analyzed_commit = deep_log[2].commit
    /\ state_file = <<StoreDocument>>

(***************************************************************************)
(* The watcher thread alone, scheduled fairly: a thread that can take a    *)
(* step takes one, a Gateway call and a file write return or raise, and    *)
(* time.sleep returns.  The store is a loaded one whose cursor is at HEAD; *)
(* the developer edits and commits.                                        *)
(***************************************************************************)
WatcherThread ==
    \/ WatcherStart
    \/ WatcherListBacklog
    \/ WatcherReplay
    \/ WatcherEnterLoop
    \/ WatcherTickDiff
    \/ FastGateway
    \/ FastAdmit
    \/ WatcherFastReturn
    \/ WatcherTickCommit
    \/ DeepEntry
    \/ DeepDiff
    \/ DeepSkip
    \/ DeepGateway
    \/ DeepMerge
    \/ DeepAlign
    \/ DeepMark
    \/ SaveAcquire
    \/ SaveStateFile
    \/ SaveCharterFile
    \/ WatcherTickEnd
    \/ WatcherSleep

LiveLoopNext ==
    \/ WatcherThread
    \/ DeveloperEdits
    \/ DeveloperCommits

LiveLoopSpec == InitLoops /\ [][LiveLoopNext]_vars /\ WF_vars(WatcherThread)

\* C29 (LiveLoopSpec).  The watcher loop survives errors: a tick that
\* raises goes to the sleep at the end of the loop body and leaves the
\* store, the diff fingerprint and the last commit hash alone; every tick
\* is followed by the sleep and every sleep by another tick; and a tick
\* after one that raised, reaching the comparison of HEAD with the last
\* commit hash while they differ, raises again or hands HEAD to
\* analyze_deep_path.
C29_LoopSurvivesErrors ==
    /\ [][/\ (\/ w_pc = "tick" /\ w_pc' = "sleep"
              \/ w_pc = "tick_commit" /\ w_pc' = "sleep" /\ head # last_commit_hash)
             => /\ tick_raised'
                /\ UNCHANGED <<last_commit_hash, last_diff_text, storeVars,
                               diskVars, deep_log, w_in_flight>>
          /\ (/\ w_pc = "tick_commit"
              /\ w_pc' # "tick_commit"
              /\ tick_raised
              /\ head # last_commit_hash)
             => \/ w_pc' = "sleep"
                \/ /\ w_pc' = "deep"
                   /\ w_from' = "tick"
                   /\ w_commit' = head
                   /\ deep_log' = Append(deep_log, [commit |-> head, from |-> "tick",
                                                    outcome |-> "running"])]_vars
    /\ (w_pc = "tick") ~> (w_pc = "sleep")
    /\ (w_pc = "sleep") ~> (w_pc = "tick")

\* the tick before this one raised, and this tick has handed a new HEAD to
\* analyze_deep_path
C29_DetectedAfterRaise ==
    /\ w_pc = "deep"
    /\ w_from = "tick"
    /\ tick_raised
    /\ w_commit = head
    /\ last_commit_hash # head

(***************************************************************************)
(* The watcher thread in a repository of MaxCommits commits whose HEAD,    *)
(* at first the first commit, the developer moves from one commit to       *)
(* another, over a loaded store whose                                      *)
(* cursor is at HEAD, so that there is no backlog; the first commit of the *)
(* repository changes no text.                                             *)
(***************************************************************************)
InitCheckout ==
    /\ security_score = MaxScore
    /\ active_issues = <<>>
    /\ project_charter = LoadedCharter
    /\ is_repo = TRUE
    /\ head = 1
    /\ last_analyzed_commit = head
    /\ worktree = Clean
    /\ empty_commits = {1}
    /\ dismissed_issues = <<>>
    /\ false_positives = <<>>
    /\ client = TRUE
    /\ FilesMatchStore
    /\ RequestsAtStart
    /\ ScreenAtStart
    /\ WatcherAtStart

CheckoutNext ==
    \/ WatcherStart
    \/ WatcherEnterLoop
    \/ WatcherTickDiff
    \/ WatcherTickCommit
    \/ DeepEntry
    \/ DeepDiff
    \/ DeepSkip
    \/ DeepGateway
    \/ DeepMerge
    \/ DeepAlign
    \/ DeepMark
    \/ SaveAcquire
    \/ SaveStateFile
    \/ SaveCharterFile
    \/ WatcherTickEnd
    \/ WatcherSleep
    \/ DeveloperChecksOut

CheckoutSpec == InitCheckout /\ [][CheckoutNext]_vars

\* C30 (CheckoutSpec).  No retry of a failed deep path: when the live loop
\* hands HEAD commit C to analyze_deep_path, every earlier call for C whose
\* Gateway call failed was followed by a call for another commit; and when
\* a call returns to the live loop, failed or not, its commit becomes the
\* last commit hash, so that no call is made while HEAD stays that commit.
C30_NoRetryOfFailedDeepPath ==
    [][/\ (w_pc = "tick_commit" /\ w_pc' = "deep")
          => /\ w_commit' = head
             /\ head # last_commit_hash
             /\ \A k \in DOMAIN deep_log :
                   (deep_log[k].commit = head /\ deep_log[k].outcome = "failed")
                       => \E j \in DOMAIN deep_log :
                             j > k /\ deep_log[j].commit # head
       /\ (w_pc = "tick_end" /\ w_pc' # "tick_end")
          => last_commit_hash' = deep_log[Len(deep_log)].commit]_vars

\* the call for HEAD commit C failed and C was not called again until HEAD
\* had moved to another commit, which was called, and come back
C30_CalledAgainAfterReturn ==
    /\ w_pc = "deep"
    /\ Len(deep_log) = 3
    /\ deep_log[1].outcome = "failed"
    /\ deep_log[2].commit # deep_log[1].commit
    /\ deep_log[3] = [commit |-> deep_log[1].commit, from |-> "tick",
                      outcome |-> "running"]
    /\ head = deep_log[1].commit

(***************************************************************************)
(* The watcher's live loop and fast path with a developer who edits, the   *)
(* daemon being restarted at any time over the state.json it loaded.       *)
(***************************************************************************)
EditRestartNext ==
    \/ EditNext
    \/ Restart

EditRestartSpec == InitEdits /\ [][EditRestartNext]_vars

\* C31 (EditRestartSpec).  Both watcher cursor fields are persisted: the
\* diff fingerprint the live loop compares the uncommitted diff with is the
\* same after a restart as before it, so that a text analyzed before the
\* restart is not handed to the fast path again.
C31_FingerprintSurvivesRestart ==
    [][(w_pc # "start" /\ w_pc' = "start") => last_diff_text' = last_diff_text]_vars

(***************************************************************************)
(* The daemon started on a directory that is not a repository: the watcher *)
(* thread, one screenshot analysis and the request handlers.               *)
(***************************************************************************)
NoRepositoryNext ==
    \/ WatcherStart
    \/ InterleavedNext

NoRepositorySpec == InitInterleaved /\ [][NoRepositoryNext]_vars

\* C32 (NoRepositorySpec).  A project path that is not a repository
\* disables only the watcher: its one step ends the thread with the store,
\* the files and the lock as they were and no analysis called, and with the
\* watcher ended the clear, delete and feedback handlers and the screenshot
\* thread can still take their steps.
C32_OnlyWatcherDisabled ==
    [][/\ w_pc' # w_pc
          => /\ w_pc = "start"
             /\ w_pc' = "stopped"
             /\ UNCHANGED <<storeVars, diskVars, lock, requestVars, screenVars,
                            histVars>>
       /\ w_pc = "stopped"
          => /\ ENABLED clear_issues
             /\ ENABLED DeleteRequest
             /\ ENABLED FeedbackRequest
             /\ s_pc # "returned"
                    => ENABLED (\/ ScreenStart
                                \/ ScreenContext
                                \/ ScreenGateway
                                \/ ScreenReadIssues
                                \/ TriageFeedbackCheck
                                \/ TriageGateway
                                \/ ScreenAdmit)]_vars

\* with the watcher ended, the screenshot analysis has run to its end, an
\* issue was marked as a false positive and the issues were cleared
C32_ServedAfterWatcherEnded ==
    /\ w_pc = "stopped"
    /\ s_pc = "returned"
    /\ false_positives # <<>>
    /\ response.message = "Cleared issues"

\* C33 (InterleavedSpec).  Feedback-aware suppression covers every admission
\* path: no step appends to active_issues an issue whose description has a
\* word-overlap ratio above 0.70 with the description of a record that
\* false_positives holds at that step.
C33_NoAdmissionOfFalsePositive ==
    [][(/\ Len(active_issues') = Len(active_issues) + 1
        /\ SubSeq(active_issues', 1, Len(active_issues)) = active_issues)
       => LET x == active_issues'[Len(active_issues')]
          IN  \A i \in DOMAIN false_positives :
                 LET A == Words(false_positives[i].description)
                     B == Words(x.description)
                 IN  ~(/\ A # {}
                       /\ B # {}
                       /\ 10 * Cardinality(A \cap B) > 7 * Cardinality(A \cup B))]_vars

(***************************************************************************)
(* The live loop with a developer who commits only while it runs.          *)
(***************************************************************************)
\* a commit that lands while the watcher is inside the while loop of
\* watcher.py 46-92 (or in a call made from it)
DeveloperCommitsLive ==
    /\ w_pc \notin {"start", "backlog", "replay", "enter_loop", "stopped"}
    /\ DeveloperCommits

LiveCommitNext ==
    \/ WatcherStart
    \/ WatcherEnterLoop
    \/ WatcherTickDiff
    \/ WatcherTickCommit
    \/ WatcherTickEnd
    \/ WatcherSleep
    \/ DeepEntry
    \/ DeepDiff
    \/ DeepSkip
    \/ DeepGateway
    \/ DeepMerge
    \/ DeepAlign
    \/ DeepMark
    \/ SaveAcquire
    \/ SaveStateFile
    \/ SaveCharterFile
    \/ DeveloperCommitsLive

LiveCommitSpec == InitEdits /\ [][LiveCommitNext]_vars

\* C34 (LiveCommitSpec).  Every commit made while the live loop runs is
\* dispatched as its own deep-path signal: every commit the watcher's commit
\* cursor last_commit_hash has moved past since the loop was entered at
\* current_head has an entry in the log of analyze_deep_path calls.
C34_EveryLiveCommitDispatched ==
    \A c \in (current_head + 1) .. last_commit_hash :
        \E i \in DOMAIN deep_log :
            /\ deep_log[i].commit = c
            /\ deep_log[i].from = "tick"

(***************************************************************************)
(* The fast path over a store loaded with a lowered score.                 *)
(***************************************************************************)
\* the store main() loads (daemon.py 258-263) from a state.json written
\* after earlier findings lowered the score and their issues were deleted;
\* the watcher thread and the developer as in InitEdits
InitLowScore ==
    /\ head \in 1 .. MaxCommits
    /\ security_score \in {MaxScore, ScorePenalty}
    /\ active_issues = <<>>
    /\ project_charter = LoadedCharter
    /\ last_analyzed_commit = head
    /\ dismissed_issues = <<>>
    /\ false_positives = <<>>
    /\ client \in BOOLEAN
    /\ FilesMatchStore
    /\ is_repo = TRUE
    /\ worktree = Clean
    /\ empty_commits = {}
    /\ RequestsAtStart
    /\ ScreenAtStart
    /\ WatcherAtStart

LowScoreSpec == InitLowScore /\ [][EditNext]_vars

\* C35 (LowScoreSpec).  security_score stays within 0..100 in every
\* reachable state, for any number of fast-path findings admitted.
C35_ScoreWithinRange ==
    security_score \in 0 .. MaxScore

\* C36 (EditSpec).  A fast-path analysis that fails or is skipped for diff
\* text D is not retried while the observed diff stays D: when
\* analyze_fast_path returns, with a finding or without one, the watcher
\* records the dispatched text as the fingerprint; the fingerprint changes
\* otherwise only when a tick observes no uncommitted change (it is cleared)
\* and when the loop is entered; and a text is dispatched only when it is
\* not empty and differs from the fingerprint.
C36_NoRetryOfFailedFastPath ==
    [][/\ (w_pc = "fast_return" /\ w_pc' # w_pc)
          => last_diff_text' = tick_cur.seen
       /\ last_diff_text' # last_diff_text
          => \/ w_pc = "fast_return"
             \/ w_pc = "enter_loop"
             \/ w_pc = "tick" /\ worktree = Clean /\ last_diff_text' = ""
       /\ (w_pc = "tick" /\ w_pc' = "fast")
          => /\ worktree \notin {"", Clean, last_diff_text}
             /\ tick_cur' = Tick(worktree, TRUE)
       /\ (w_pc = "tick" /\ w_pc' = "tick_commit" /\ worktree = last_diff_text)
          => /\ tick_cur' = Tick(worktree, FALSE)
             /\ UNCHANGED <<storeVars, last_diff_text, w_in_flight>>]_vars

\* without a Gateway client the analysis of "diff a" was skipped, and the
\* next tick observed "diff a" again without calling analyze_fast_path
C36_SkippedTextNotRetried ==
    /\ ~client
    /\ tick_prev = Tick("diff a", TRUE)
    /\ tick_cur = Tick("diff a", FALSE)
    /\ worktree = "diff a"
    /\ active_issues = <<>>
    /\ w_pc = "sleep"

(***************************************************************************)
(* GatewaySpec with scheduling: a thread that can run does run             *)
(* (run_watcher_thread and run_screen_thread, daemon.py 206-212, are       *)
(* threads of their own), and a thread that waits at `with lock:` gets the *)
(* lock when it is free again and again.                                   *)
(***************************************************************************)
FairGatewaySpec ==
    /\ InitGateway
    /\ [][GatewayNext]_vars
    /\ WF_vars(DeepDiff \/ DeepGateway \/ DeepAlign \/ FastGateway
               \/ SaveStateFile \/ SaveCharterFile)
    /\ SF_vars(DeepEntry \/ DeepSkip \/ DeepMerge \/ DeepMark \/ SaveAcquire
               \/ FastAdmit)
    /\ WF_vars(ScreenStart \/ ScreenGateway \/ TriageGateway)
    /\ SF_vars(ScreenContext \/ ScreenReadIssues \/ TriageFeedbackCheck
               \/ ScreenAdmit)

\* C37 (FairGatewaySpec).  No self-deadlock on state_lock: the thread that
\* holds the lock is never waiting for it (it can always take its next
\* step), every acquisition is followed by a release, and a thread that
\* waits at a locked section (the writer, the deep and fast paths, the
\* screenshot analysis, triage_suggestions) eventually passes it.
C37_NoSelfDeadlock ==
    /\ [](lock = "watcher" => ENABLED (SaveStateFile \/ SaveCharterFile))
    /\ (lock = "watcher") ~> (lock = "free")
    /\ \A p \in {"deep", "deep_skip", "deep_merge", "deep_mark", "save", "fast_admit"} :
           (w_pc = p) ~> (w_pc # p)
    /\ \A p \in {"context", "read_issues", "triage_feedback", "triage_done"} :
           (s_pc = p) ~> (s_pc # p)

\* the screenshot thread waits at the lock of triage_suggestions while the
\* writer, called after the completion marks, holds it
C37_TriageWaitsForWriter ==
    /\ lock = "watcher"
    /\ w_pc = "save_charter"
    /\ s_pc = "triage_feedback"
    /\ \E i \in DOMAIN project_charter.charter_items :
           project_charter.charter_items[i].completed_by_commit = w_commit

\* C38 (WritersSpec).  The snapshot on disk never records the cursor of a
\* commit together with a charter that lacks the completion marks the
\* alignment check produced for it: what the alignment check produced is
\* marked in the next step of the watcher, every valid goal index with the
\* commit; from the marking to the snapshot no step changes the charter or
\* the cursor; and state.json is written only by the snapshot step of the
\* writer, with no mark pending, as the document of the store at that step.
C38_SnapshotHasCompletionMarks ==
    [][/\ completed_goals' # completed_goals
          => \/ /\ w_pc = "deep_align"
                /\ w_pc' = IF completed_goals' # {} THEN "deep_mark" ELSE "save"
             \/ /\ w_pc = "deep_mark"
                /\ w_pc' = "save"
                /\ completed_goals' = {}
                /\ last_analyzed_commit' = w_commit
                /\ \A g \in completed_goals :
                       GoalIndexValid(g, project_charter.charter_items) =>
                           /\ project_charter'.charter_items[g + 1].completed
                           /\ project_charter'.charter_items[g + 1].completed_by_commit = w_commit
       /\ w_pc \in {"save", "save_state"}
          => /\ project_charter' = project_charter
             /\ last_analyzed_commit' = last_analyzed_commit
             /\ completed_goals' = {}
       /\ state_file' # state_file
          => /\ w_pc = "save_state"
             /\ lock = "watcher"
             /\ completed_goals = {}
             /\ state_file' = <<StoreDocument>>]_vars

\* the snapshot records commit 2 and the goal commit 2 completed
C38_SnapshotOfMarkedCommit ==
    /\ state_file # <<>>
    /\ state_file[1].last_analyzed_commit = JsonOfCommit(2)
    /\ \E i \in DOMAIN state_file[1].project_charter.charter_items :
           /\ state_file[1].project_charter.charter_items[i].completed
           /\ state_file[1].project_charter.charter_items[i].completed_by_commit = 2
    /\ w_pc = "save_charter"

\* C39 (WritersSpec).  No lost update on the charter: project_charter and
\* last_analyzed_commit are written only by steps of the watcher thread in
\* analyze_deep_path (the skip, the merge and the marking, each under the
\* lock), so that from the deep path's read of the charter to its merge no
\* step changes either of them; the request handlers, the fast path and the
\* screenshot thread leave both unchanged.
C39_CharterHasOneWriter ==
    [][/\ (project_charter' # project_charter \/ last_analyzed_commit' # last_analyzed_commit)
          => /\ w_pc \in {"deep_skip", "deep_merge", "deep_mark"}
             /\ w_pc' # w_pc
             /\ lock = "free"
             /\ last_analyzed_commit' = w_commit
       /\ (w_pc \in {"deep_diff", "deep_gateway"} \/ w_pc' = w_pc)
          => UNCHANGED <<project_charter, last_analyzed_commit>>]_vars

\* the merge of commit 2 is done, after a clear, a false-positive mark and a
\* screenshot admission
C39_MergedAmongOtherWriters ==
    /\ w_pc = "deep_align"
    /\ last_analyzed_commit = 2
    /\ project_charter # LoadedCharter
    /\ response.message = "Cleared issues"
    /\ false_positives # <<>>
    /\ s_pc = "returned"

\* C40 (WritersSpec).  Fast-path admission is atomic: the step that admits
\* a fast-path finding lowers security_score by 10 and appends the finding
\* in one step taken with the lock free; the score changes in no other step
\* but that of clear_issues, which sets it to 100 and empties the list; so
\* the score is 100 less 10 for every finding admitted since the last
\* clear, whatever feedback, delete and triage admissions do.
C40_AtomicFastAdmission ==
    [][/\ (w_pc = "fast_admit" /\ w_pc' # w_pc)
          => /\ lock = "free"
             /\ lock' = "free"
             /\ security_score' = security_score - ScorePenalty
             /\ active_issues' = Append(active_issues, fast_issue[1])
       /\ security_score' # security_score
          => \/ /\ w_pc = "fast_admit"
                /\ w_pc' = "fast_return"
                /\ security_score' = security_score - ScorePenalty
             \/ /\ w_pc' = w_pc
                /\ s_pc' = s_pc
                /\ security_score' = MaxScore
                /\ active_issues' = <<>>
                /\ response'.message = "Cleared issues"
       /\ (s_pc' # s_pc \/ (response' # response /\ response'.message # "Cleared issues"))
          => security_score' = security_score]_vars

\* one finding admitted and none cleared: the score is 90 after a
\* false-positive mark, a screenshot admission and a delete
C40_ScoreAfterOneFinding ==
    /\ security_score = MaxScore - ScorePenalty
    /\ w_pc = "fast_return"
    /\ s_pc = "returned"
    /\ false_positives # <<>>
    /\ response.message = "Issue removed"
=============================================================================
